---- MODULE Spec2Model ----
(***************************************************************************)
(* State-machine model of the kraken-tui native core (src/native/src).     *)
(*                                                                         *)
(* The context (context.rs, TuiContext) is the state.  Handles are u32;    *)
(* Option<u32> fields are modelled with 0 for None, which is sound because *)
(* handle 0 is never allocated (next_handle starts at 1).                  *)
(***************************************************************************)
EXTENDS Integers, Sequences, FiniteSets, TLC

(***************************************************************************)
(* Bounds of the model.                                                    *)
(***************************************************************************)
\* Handles create_node may issue in Spec, SpecDirty and SpecDestroy.
MaxNodes == 3
\* Handles create_node may issue in SpecBoxes, where every node is a Box.
MaxBoxes == 4
\* References to nodes (root, focus, buffered events, animations and theme
\* bindings together) after which no call that adds one is offered.
MaxRefs == 3
\* Animation handles start_spinner may issue.
MaxAnims == 1
\* SpecFocus: handles create_node may issue, and events the buffer may hold.
MaxFocusNodes == 3
MaxFocusEvents == 1
\* SpecInput: handles create_node may issue, and events the buffer may hold.
MaxInputNodes == 2
MaxInputEvents == 2
\* SpecKeys: handles create_node may issue, events the buffer may hold,
\* graphemes of a node's content and options of a Select.
MaxKeyNodes == 1
MaxKeyEvents == 1
MaxContent == 2
MaxOptions == 2
\* SpecAnim: node handles, animation handles, choreography group handles and
\* the largest elapsed time an animation reaches.
MaxAnimNodes == 1
MaxAnimHandles == 2
MaxGroups == 1
MaxElapsed == 2
\* SpecChain: animation handles
MaxChainHandles == 3

None == 0

\* i32::MAX
I32_MAX == 2147483647

\* The f32 value 1.0.  Animated values are counted in quarters, so that the
\* linear interpolations the model reaches are exact.
One == 4

\* types.rs NodeType (TextArea is the kind lib.rs and event.rs dispatch on).
NodeTypes == {"Box", "Text", "Input", "Select", "ScrollBox", "TextArea"}

\* The kinds the tree treats differently: a container, a leaf, a ScrollBox.
TreeKinds == {"Box", "Text", "ScrollBox"}

\* theme.rs: the built-in themes a host may bind without creating one, and
\* the first handle create_theme issues
DARK_THEME_HANDLE == 1
LIGHT_THEME_HANDLE == 2
FIRST_USER_THEME_HANDLE == 3

\* Handles a host may pass: the sentinel 0, live, destroyed and never issued.
Handles(limit) == 0..limit

\* Child indices a host may pass to insert_child: inside, at and past the end.
Indices(limit) == 0..limit

VARIABLES
    nodes,          \* ctx.nodes: handle -> TuiNode (the modelled fields)
    tree,           \* ctx.tree: the Taffy tree, keyed by the node's handle
    next_handle,    \* ctx.next_handle
    root,           \* ctx.root (0 = None)
    focused,        \* ctx.focused (0 = None)
    event_buffer,   \* ctx.event_buffer
    animations,     \* ctx.animations
    next_anim_handle, \* ctx.next_anim_handle
    animation_chains, \* ctx.animation_chains: after_anim_id -> next_anim_id
    choreo_groups,  \* ctx.choreo_groups: group handle -> ChoreographyGroup
    next_choreo_group_handle, \* ctx.next_choreo_group_handle
    theme_bindings, \* ctx.theme_bindings: node handle -> theme handle
    themes,         \* ctx.themes: theme handle -> Theme
    next_theme_handle, \* ctx.next_theme_handle
    front_buffer,   \* ctx.front_buffer
    back_buffer,    \* ctx.back_buffer
    backend,        \* ctx.backend: the terminal size and the diff last written
    returned,       \* history: the handles create_node has returned, in order
    process         \* CONTEXT is Some, OWNER_THREAD, and where each thread's call stands

vars == <<nodes, tree, next_handle, root, focused, event_buffer, animations,
          next_anim_handle, animation_chains, choreo_groups,
          next_choreo_group_handle, theme_bindings, themes, next_theme_handle,
          front_buffer, back_buffer, backend, returned, process>>

(***************************************************************************)
(* Vec<u32> helpers.                                                       *)
(***************************************************************************)
\* Vec::contains
Contains(s, x) == \E k \in 1..Len(s) : s[k] = x

\* iter().position(|&h| h == x): 1-based index of the first x, 0 when absent
Position(s, x) ==
    IF Contains(s, x) THEN CHOOSE k \in 1..Len(s) : s[k] = x /\ \A j \in 1..(k-1) : s[j] # x
    ELSE 0

\* Vec::remove(idx) with a 1-based idx
RemoveAt(s, k) == SubSeq(s, 1, k - 1) \o SubSeq(s, k + 1, Len(s))

\* Vec::insert(idx, x) with a 0-based idx <= len
InsertAt(s, idx, x) == SubSeq(s, 1, idx) \o <<x>> \o SubSeq(s, idx + 1, Len(s))

\* Vec::retain(|&h| h != x)
Retain(s, x) == SelectSeq(s, LAMBDA h : h # x)

Min(a, b) == IF a <= b THEN a ELSE b

\* HashMap::remove(key)
MapRemove(m, k) == [x \in DOMAIN m \ {k} |-> m[x]]

\* HashMap::insert(key, value)
MapInsert(m, k, v) == [x \in DOMAIN m \cup {k} |-> IF x = k THEN v ELSE m[x]]

(***************************************************************************)
(* types.rs                                                                *)
(***************************************************************************)
is_leaf(node_type) == node_type \in {"Text", "Input", "Select"}

\* Option<u32>::None of selected_index (0 is a valid index)
Unselected == -1

\* VisualStyle: the properties that carry a bit in style_mask, which the
\* model holds as the set of the properties whose bit is set
StyleProps ==
    {"fg_color", "bg_color", "border_color", "border_style", "attrs", "opacity"}

\* The characters of the cells: a space, or the part of a border in a
\* border style (BorderStyle::chars)
Space == <<"None", "">>
BorderChar(border_style, part) == <<border_style, part>>

\* Cell::default
BlankCell == [ch |-> Space, fg |-> 0, bg |-> 0, attrs |-> {}]

\* Buffer::new: width * height default cells, addressed by <<x, y>>
NewBuffer(width, height) ==
    [width |-> width, height |-> height,
     cells |-> [pos \in (0..(width - 1)) \X (0..(height - 1)) |-> BlankCell]]

\* TuiNode::new.  content is the string as the list of its graphemes, each
\* "a" (a printable character) or "LF" (a line feed); options is the number
\* of entries of the options vector; cursor_row and cursor_col are the
\* TextArea cursor that event.rs and lib.rs read and write.  The fields of
\* visual_style are fields of the node; render_offset is its x component.
NewNode(node_type) ==
    [node_type |-> node_type, parent |-> None, children |-> <<>>,
     dirty |-> TRUE, visible |-> TRUE,
     focusable |-> node_type \in {"Input", "Select"},
     content |-> <<>>, cursor_position |-> 0, max_length |-> 0,
     options |-> 0, selected_index |-> Unselected,
     cursor_row |-> 0, cursor_col |-> 0,
     opacity |-> One, render_offset |-> 0,
     fg_color |-> 0, bg_color |-> 0, border_style |-> "None", border_color |-> 0,
     attrs |-> {}, style_mask |-> {}, scroll_x |-> 0, scroll_y |-> 0]

\* context.rs validate_handle
validate_handle(ns, handle) == handle # 0 /\ handle \in DOMAIN ns

(***************************************************************************)
(* The Taffy tree as tree.rs uses it.  A Taffy node is identified with the *)
(* handle of the TuiNode that owns it (TuiNode.taffy_node).                *)
(***************************************************************************)
\* The layout of a node that no compute_layout has reached: Layout::new()
ZeroLayout == [x |-> 0, y |-> 0, w |-> 0, h |-> 0]

\* tree.new_leaf / tree.new_with_children(style, &[])
TaffyNew(tr, h) ==
    MapInsert(tr, h, [children |-> <<>>, parent |-> None, layout |-> ZeroLayout])

\* tree.set_children(parent, children)
TaffySetChildren(tr, p, cs) ==
    [x \in DOMAIN tr |->
        IF x = p THEN [tr[x] EXCEPT !.children = cs]
        ELSE IF Contains(cs, x) THEN [tr[x] EXCEPT !.parent = p]
        ELSE IF Contains(tr[p].children, x) THEN [tr[x] EXCEPT !.parent = None]
        ELSE tr[x]]

\* tree.remove_child(parent, child): defined when child is among parent's children
TaffyRemoveChild(tr, p, c) ==
    [x \in DOMAIN tr |->
        IF x = p THEN [tr[x] EXCEPT !.children = RemoveAt(@, Position(@, c))]
        ELSE IF x = c THEN [tr[x] EXCEPT !.parent = None]
        ELSE tr[x]]

\* tree.remove(node)
TaffyRemove(tr, h) ==
    [x \in DOMAIN tr \ {h} |->
        IF x = tr[h].parent THEN [tr[x] EXCEPT !.children = Retain(@, h)]
        ELSE IF Contains(tr[h].children, x) THEN [tr[x] EXCEPT !.parent = None]
        ELSE tr[x]]

(***************************************************************************)
(* tree.rs: dirty propagation                                              *)
(***************************************************************************)
\* The handles mark_dirty_ancestors visits: handle, then parent links upward
\* while the node exists.  seen stops the walk on a parent cycle, where the
\* code's loop would not return.
RECURSIVE AncestorChain(_, _, _)
AncestorChain(ns, current, seen) ==
    IF current \notin DOMAIN ns \/ current \in seen THEN seen
    ELSE IF ns[current].parent # None
         THEN AncestorChain(ns, ns[current].parent, seen \cup {current})
         ELSE seen \cup {current}

mark_dirty_ancestors(ns, handle) ==
    LET chain == AncestorChain(ns, handle, {})
    IN  [x \in DOMAIN ns |-> IF x \in chain THEN [ns[x] EXCEPT !.dirty = TRUE] ELSE ns[x]]

mark_dirty(ns, handle) == mark_dirty_ancestors(ns, handle)

\* A faulty clearing that passes over the invisible nodes.
ClearVisibleFlags(ns) ==
    [x \in DOMAIN ns |-> IF ns[x].visible THEN [ns[x] EXCEPT !.dirty = FALSE] ELSE ns[x]]

clear_dirty_flags(ns) == [x \in DOMAIN ns |-> [ns[x] EXCEPT !.dirty = FALSE]]

(***************************************************************************)
(* tree.rs: would_create_cycle                                             *)
(***************************************************************************)
\* A faulty cycle test that lets every edge through.
NoCycleCheck(ns, parent, child) == FALSE

RECURSIVE CycleWalk(_, _, _, _)
CycleWalk(ns, current, child, seen) ==
    IF current = None THEN FALSE
    ELSE IF current = child THEN TRUE
    ELSE IF current \in seen THEN FALSE
    ELSE CycleWalk(ns,
                   IF current \in DOMAIN ns THEN ns[current].parent ELSE None,
                   child, seen \cup {current})

would_create_cycle(ns, parent, child) == CycleWalk(ns, parent, child, {})

(***************************************************************************)
(* tree.rs: operations.  Each returns [ok, nodes, tree]: the Result and    *)
(* the node table and Taffy tree the call leaves behind.                   *)
(***************************************************************************)
Res(ok, ns, tr) == [ok |-> ok, nodes |-> ns, tree |-> tr]

\* sync_taffy_children succeeds when parent and each listed child exist
SyncOk(ns, parent) ==
    /\ parent \in DOMAIN ns
    /\ \A k \in 1..Len(ns[parent].children) : ns[parent].children[k] \in DOMAIN ns

sync_taffy_children(ns, tr, parent) == TaffySetChildren(tr, parent, ns[parent].children)

\* A faulty clamp that always inserts at the front.
ClampToFront(index, len) == 0

\* insert_child, lines 203-209: the child list insert_child proposes for parent
ClampIndex(index, len) == Min(index, len)

ProposedChildren(children, child, index) ==
    LET existing_idx == Position(children, child)
        without == IF existing_idx # 0 THEN RemoveAt(children, existing_idx) ELSE children
    IN  InsertAt(without, ClampIndex(index, Len(without)), child)

\* A faulty constraint that lets a ScrollBox take any number of children.
NoScrollBoxLimit(node_type, parent_children) == FALSE

\* insert_child, lines 211-217: the ScrollBox single-child constraint
ScrollBoxRejects(node_type, parent_children) ==
    node_type = "ScrollBox" /\ Len(parent_children) > 1

\* A faulty detach that leaves the previous parent's child list as it was.
KeepInOldParent(ns, old_parent, child) == ns

\* insert_child, lines 219-228: detach child from its previous parent
DetachFromOldParent(ns, old_parent, child) ==
    IF old_parent \in DOMAIN ns
    THEN [ns EXCEPT ![old_parent].children = Retain(@, child)]
    ELSE ns

\* insert_child, lines 230-236: bookkeeping of the new edge
AttachChild(ns, parent, child, parent_children) ==
    [ns EXCEPT ![parent].children = parent_children, ![child].parent = parent]

insert_child(ns, tr, parent, child, index) ==
    IF parent = child THEN Res(FALSE, ns, tr)
    ELSE IF would_create_cycle(ns, parent, child) THEN Res(FALSE, ns, tr)
    ELSE IF parent \notin DOMAIN ns \/ child \notin DOMAIN ns THEN Res(FALSE, ns, tr)
    ELSE
      LET child_parent == ns[child].parent
          parent_children == ProposedChildren(ns[parent].children, child, index)
      IN
      IF ScrollBoxRejects(ns[parent].node_type, parent_children) THEN Res(FALSE, ns, tr)
      ELSE
        LET detach == child_parent # None /\ child_parent # parent
            ns1 == IF detach THEN DetachFromOldParent(ns, child_parent, child) ELSE ns
            ok1 == (~detach) \/ SyncOk(ns1, child_parent)
        IN
        IF ~ok1 THEN Res(FALSE, ns1, tr)
        ELSE
          LET tr1 == IF detach THEN sync_taffy_children(ns1, tr, child_parent) ELSE tr
              ns2 == IF detach THEN mark_dirty_ancestors(ns1, child_parent) ELSE ns1
              ns3 == AttachChild(ns2, parent, child, parent_children)
          IN
          IF ~SyncOk(ns3, parent) THEN Res(FALSE, ns3, tr1)
          ELSE Res(TRUE, mark_dirty_ancestors(ns3, parent),
                   sync_taffy_children(ns3, tr1, parent))

\* append_child, line 159: the already-attached early return
AlreadyAttached(ns, parent, child) ==
    ns[child].parent = parent /\ Contains(ns[parent].children, child)

append_child(ns, tr, parent, child) ==
    IF parent \notin DOMAIN ns \/ child \notin DOMAIN ns THEN Res(FALSE, ns, tr)
    ELSE IF AlreadyAttached(ns, parent, child)
         THEN Res(TRUE, mark_dirty_ancestors(ns, parent), tr)
         ELSE insert_child(ns, tr, parent, child, Len(ns[parent].children))

\* remove_child, lines 281-283: Taffy finds child among parent's Taffy
\* children; when it is not there the call does not return normally and
\* nothing has been changed.
TaffyHasChild(tr, parent, child) == Contains(tr[parent].children, child)

remove_child(ns, tr, parent, child) ==
    IF parent \notin DOMAIN ns \/ child \notin DOMAIN ns THEN Res(FALSE, ns, tr)
    ELSE IF ~TaffyHasChild(tr, parent, child) THEN Res(FALSE, ns, tr)
    ELSE
      LET ns1 == [ns EXCEPT ![parent].children = Retain(@, child), ![child].parent = None]
      IN  Res(TRUE, mark_dirty_ancestors(ns1, parent), TaffyRemoveChild(tr, parent, child))

(***************************************************************************)
(* animation.rs: cancel_all_for_node (the registry part)                   *)
(***************************************************************************)
\* A faulty cancellation that leaves the registry as it is.
KeepAnimations(anims, handle) == anims

\* cancel_all_for_node: the animations that stay in the registry
cancel_all_for_node(anims, handle) == SelectSeq(anims, LAMBDA a : a.target # handle)

\* The ids of the animations of a registry.
AnimIds(anims) == {anims[k].id : k \in 1..Len(anims)}

\* cancel_all_for_node, the chain part: entries whose predecessor or whose
\* successor was cancelled are removed.
prune_chains(chains, cancelled_ids) ==
    [after \in {x \in DOMAIN chains : x \notin cancelled_ids
                                      /\ chains[x] \notin cancelled_ids}
        |-> chains[after]]

\* remove_animation_from_choreography for each id of a set: the members are
\* dropped, then every group without members is dropped, also one that had
\* none before.  No call is made for an empty set.
remove_from_choreography(groups, anim_ids) ==
    IF anim_ids = {} THEN groups
    ELSE LET pruned == [g \in DOMAIN groups |->
                         [groups[g] EXCEPT !.members =
                             SelectSeq(@, LAMBDA m : m.anim_id \notin anim_ids)]]
         IN  [g \in {x \in DOMAIN pruned : pruned[x].members # <<>>} |-> pruned[g]]

(***************************************************************************)
(* tree.rs: destroy_node.  Returns [ok, nodes, tree, root, focused].       *)
(***************************************************************************)
\* A faulty orphaning that leaves the children pointing at the removed node.
KeepChildParents(ns, children) == ns

\* destroy_node, lines 63-68: orphan the children of the removed node
OrphanChildren(ns, children) ==
    [x \in DOMAIN ns |->
        IF Contains(children, x) THEN [ns[x] EXCEPT !.parent = None] ELSE ns[x]]

\* destroy_node, lines 55-61: detach the removed node from its parent
DetachFromParent(ns, parent_handle, handle) ==
    IF parent_handle # None /\ parent_handle \in DOMAIN ns
    THEN mark_dirty_ancestors(
             [ns EXCEPT ![parent_handle].children = Retain(@, handle)], parent_handle)
    ELSE ns

\* A faulty destroy that leaves root and focus naming the removed node.
KeepRef(ref, handle) == ref

\* destroy_node, lines 73-79: clear root/focus if pointing to this node
ClearRef(ref, handle) == IF ref = handle THEN None ELSE ref

destroy_node(ns, tr, rt, fc, handle) ==
    IF handle \notin DOMAIN ns
    THEN [ok |-> FALSE, nodes |-> ns, tree |-> tr, root |-> rt, focused |-> fc]
    ELSE
      LET node == ns[handle]
          ns1 == MapRemove(ns, handle)
          ns2 == DetachFromParent(ns1, node.parent, handle)
          ns3 == OrphanChildren(ns2, node.children)
      IN  [ok |-> TRUE, nodes |-> ns3, tree |-> TaffyRemove(tr, handle),
           root |-> ClearRef(rt, handle),
           focused |-> ClearRef(fc, handle)]

(***************************************************************************)
(* tree.rs: destroy_subtree                                                *)
(***************************************************************************)
\* collect_subtree_post_order; fuel bounds the depth by the number of nodes,
\* beyond which the child lists hold a cycle and the code's recursion would
\* not return.
RECURSIVE collect_subtree_post_order(_, _, _)
RECURSIVE CollectChildren(_, _, _)
collect_subtree_post_order(ns, handle, fuel) ==
    IF handle \notin DOMAIN ns \/ fuel = 0 THEN [ok |-> FALSE, out |-> <<>>]
    ELSE LET kids == CollectChildren(ns, ns[handle].children, fuel - 1)
         IN  [ok |-> kids.ok, out |-> Append(kids.out, handle)]

CollectChildren(ns, cs, fuel) ==
    IF cs = <<>> THEN [ok |-> TRUE, out |-> <<>>]
    ELSE LET h == collect_subtree_post_order(ns, Head(cs), fuel)
         IN  IF ~h.ok THEN h
             ELSE LET t == CollectChildren(ns, Tail(cs), fuel)
                  IN  [ok |-> t.ok, out |-> h.out \o t.out]

SeqToSet(s) == {s[k] : k \in 1..Len(s)}

\* destroy_subtree, lines 102-121: the loop over post_order.  st carries
\* [ok, nodes, tree, animations, theme_bindings, ext], ext being
\* detached_external_parent.
RECURSIVE DestroyLoop(_, _, _)
DestroyLoop(post_order, subtree_handles, st) ==
    IF post_order = <<>> THEN st
    ELSE
      LET node_handle == Head(post_order)
          anims1 == cancel_all_for_node(st.animations, node_handle)
          tb1 == MapRemove(st.theme_bindings, node_handle)
      IN
      IF node_handle \notin DOMAIN st.nodes
      THEN [st EXCEPT !.ok = FALSE, !.animations = anims1, !.theme_bindings = tb1]
      ELSE
        LET node == st.nodes[node_handle]
            ns1 == MapRemove(st.nodes, node_handle)
            has_parent == node.parent # None /\ node.parent \in DOMAIN ns1
            ns2 == IF has_parent
                   THEN [ns1 EXCEPT ![node.parent].children = Retain(@, node_handle)]
                   ELSE ns1
            ext1 == IF has_parent /\ node.parent \notin subtree_handles
                    THEN node.parent ELSE st.ext
        IN  DestroyLoop(Tail(post_order), subtree_handles,
                [ok |-> TRUE, nodes |-> ns2, tree |-> TaffyRemove(st.tree, node_handle),
                 animations |-> anims1, theme_bindings |-> tb1, ext |-> ext1])

\* A faulty scrub that keeps every buffered event.
KeepEvents(events, subtree_handles) == events

\* destroy_subtree, lines 129-130: scrub the event buffer
ScrubEvents(events, subtree_handles) ==
    SelectSeq(events, LAMBDA e : e.target \notin subtree_handles)

\* Returns [ok, nodes, tree, animations, theme_bindings, event_buffer, root, focused].
destroy_subtree(ns, tr, anims, tb, events, rt, fc, handle) ==
    LET unchanged == [ok |-> FALSE, nodes |-> ns, tree |-> tr, animations |-> anims,
                      theme_bindings |-> tb, event_buffer |-> events,
                      root |-> rt, focused |-> fc]
        collected == collect_subtree_post_order(ns, handle, Cardinality(DOMAIN ns))
    IN
    IF handle \notin DOMAIN ns THEN unchanged
    ELSE IF ~collected.ok THEN unchanged
    ELSE
      LET subtree_handles == SeqToSet(collected.out)
          st == DestroyLoop(collected.out, subtree_handles,
                    [ok |-> TRUE, nodes |-> ns, tree |-> tr, animations |-> anims,
                     theme_bindings |-> tb, ext |-> None])
      IN
      IF ~st.ok
      THEN [unchanged EXCEPT !.nodes = st.nodes, !.tree = st.tree,
                             !.animations = st.animations,
                             !.theme_bindings = st.theme_bindings]
      ELSE [ok |-> TRUE,
            nodes |-> IF st.ext # None /\ st.ext \in DOMAIN st.nodes
                      THEN mark_dirty_ancestors(st.nodes, st.ext) ELSE st.nodes,
            tree |-> st.tree,
            animations |-> st.animations,
            theme_bindings |-> st.theme_bindings,
            event_buffer |-> ScrubEvents(events, subtree_handles),
            root |-> IF rt # None /\ rt \in subtree_handles THEN None ELSE rt,
            focused |-> IF fc # None /\ fc \in subtree_handles THEN None ELSE fc]

(***************************************************************************)
(* Initial state: TuiContext::new (context.rs)                             *)
(***************************************************************************)
\* theme.rs create_builtin_themes: the dark and the light theme, which set
\* every property (mask MASK_ALL)
create_builtin_themes ==
    (DARK_THEME_HANDLE :>
        [fg_color |-> 31514848, bg_color |-> 18751022, border_color |-> 21645914,
         border_style |-> "Single", attrs |-> {}, opacity |-> One, mask |-> StyleProps])
    @@ (LIGHT_THEME_HANDLE :>
        [fg_color |-> 19014178, bg_color |-> 32896501, border_color |-> 29080507,
         border_style |-> "Single", attrs |-> {}, opacity |-> One, mask |-> StyleProps])

\* backend.size() when the context is created
InitialScreen == [width |-> 3, height |-> 1]

\* The number of threads of the host process that call the library.
MaxThreads == 2

\* The threads of the host process; thread 1 is the one that called tui_init.
Threads == 1..MaxThreads

\* A thread that is in no entry point.
Idle == [at |-> "idle", from_other_thread |-> FALSE]

Init ==
    /\ nodes = <<>>
    /\ tree = <<>>
    /\ next_handle = 1
    /\ root = None
    /\ focused = None
    /\ event_buffer = <<>>
    /\ animations = <<>>
    /\ next_anim_handle = 1
    /\ animation_chains = <<>>
    /\ choreo_groups = <<>>
    /\ next_choreo_group_handle = 1
    /\ theme_bindings = <<>>
    /\ themes = create_builtin_themes
    /\ next_theme_handle = FIRST_USER_THEME_HANDLE
    /\ front_buffer = NewBuffer(InitialScreen.width, InitialScreen.height)
    /\ back_buffer = NewBuffer(InitialScreen.width, InitialScreen.height)
    /\ backend = [width |-> InitialScreen.width, height |-> InitialScreen.height,
                  written |-> <<>>]
    /\ returned = <<>>
    /\ process = [initialized |-> TRUE, owner_thread |-> 1,
                  calls |-> [t \in Threads |-> Idle]]

(***************************************************************************)
(* Entry points of the tree (lib.rs tui_* over tree.rs)                    *)
(***************************************************************************)
\* A faulty allocator that hands out the smallest handle not in use.
CreateNodeReusing(limit, node_type) ==
    /\ Cardinality(DOMAIN nodes) < limit
    /\ LET handle == CHOOSE h \in 1..limit : h \notin DOMAIN nodes /\
                          \A g \in 1..(h - 1) : g \in DOMAIN nodes
       IN  /\ next_handle' = IF handle >= next_handle THEN handle + 1 ELSE next_handle
           /\ nodes' = MapInsert(nodes, handle, NewNode(node_type))
           /\ tree' = TaffyNew(tree, handle)
           /\ returned' = Append(returned, handle)
           /\ process' = process
    /\ UNCHANGED <<themes, next_theme_handle, front_buffer, back_buffer, backend,
                   root, focused, event_buffer, animations, next_anim_handle,
                   theme_bindings,
                   animation_chains, choreo_groups, next_choreo_group_handle>>

\* tui_create_node / tree::create_node
CreateNode(limit, node_type) ==
    /\ next_handle <= limit
    /\ LET handle == next_handle
       IN  /\ next_handle' = next_handle + 1
           /\ nodes' = MapInsert(nodes, handle, NewNode(node_type))
           /\ tree' = TaffyNew(tree, handle)
           /\ returned' = Append(returned, handle)
           /\ process' = process
    /\ UNCHANGED <<themes, next_theme_handle, front_buffer, back_buffer, backend,
                   root, focused, event_buffer, animations, next_anim_handle,
                   theme_bindings,
                   animation_chains, choreo_groups, next_choreo_group_handle>>

\* tui_insert_child: validate both handles, then tree::insert_child
tui_insert_child(ns, tr, parent, child, index) ==
    IF validate_handle(ns, parent) /\ validate_handle(ns, child)
    THEN insert_child(ns, tr, parent, child, index)
    ELSE Res(FALSE, ns, tr)

InsertChild(parent, child, index) ==
    LET r == tui_insert_child(nodes, tree, parent, child, index)
    IN  /\ nodes' = r.nodes
        /\ tree' = r.tree
        /\ UNCHANGED <<themes, next_theme_handle, front_buffer, back_buffer, backend,
                   next_handle, root, focused, event_buffer, animations,
                       next_anim_handle, theme_bindings, returned, process,
                   animation_chains, choreo_groups, next_choreo_group_handle>>

\* tui_append_child
tui_append_child(ns, tr, parent, child) ==
    IF validate_handle(ns, parent) /\ validate_handle(ns, child)
    THEN append_child(ns, tr, parent, child)
    ELSE Res(FALSE, ns, tr)

AppendChild(parent, child) ==
    LET r == tui_append_child(nodes, tree, parent, child)
    IN  /\ nodes' = r.nodes
        /\ tree' = r.tree
        /\ UNCHANGED <<themes, next_theme_handle, front_buffer, back_buffer, backend,
                   next_handle, root, focused, event_buffer, animations,
                       next_anim_handle, theme_bindings, returned, process,
                   animation_chains, choreo_groups, next_choreo_group_handle>>

\* tui_remove_child
tui_remove_child(ns, tr, parent, child) ==
    IF validate_handle(ns, parent) /\ validate_handle(ns, child)
    THEN remove_child(ns, tr, parent, child)
    ELSE Res(FALSE, ns, tr)

RemoveChild(parent, child) ==
    LET r == tui_remove_child(nodes, tree, parent, child)
    IN  /\ nodes' = r.nodes
        /\ tree' = r.tree
        /\ UNCHANGED <<themes, next_theme_handle, front_buffer, back_buffer, backend,
                   next_handle, root, focused, event_buffer, animations,
                       next_anim_handle, theme_bindings, returned, process,
                   animation_chains, choreo_groups, next_choreo_group_handle>>

\* tui_destroy_node: validate, cancel the node's animations, tree::destroy_node.
\* Returns [ok, nodes, tree, animations, theme_bindings, event_buffer, root,
\* focused]: the context the call leaves behind.
tui_destroy_node(ns, tr, anims, tb, events, rt, fc, handle) ==
    IF ~validate_handle(ns, handle)
    THEN [ok |-> FALSE, nodes |-> ns, tree |-> tr, animations |-> anims,
          theme_bindings |-> tb, event_buffer |-> events, root |-> rt, focused |-> fc]
    ELSE LET r == destroy_node(ns, tr, rt, fc, handle)
         IN  [ok |-> r.ok, nodes |-> r.nodes, tree |-> r.tree,
              animations |-> cancel_all_for_node(anims, handle),
              theme_bindings |-> tb, event_buffer |-> events,
              root |-> r.root, focused |-> r.focused]

DestroyNode(handle) ==
    LET r == tui_destroy_node(nodes, tree, animations, theme_bindings, event_buffer,
                              root, focused, handle)
    IN  /\ nodes' = r.nodes
        /\ tree' = r.tree
        /\ animations' = r.animations
        /\ LET cancelled_ids == AnimIds(animations) \ AnimIds(r.animations)
           IN  /\ animation_chains' = prune_chains(animation_chains, cancelled_ids)
               /\ choreo_groups' = remove_from_choreography(choreo_groups, cancelled_ids)
        /\ theme_bindings' = r.theme_bindings
        /\ event_buffer' = r.event_buffer
        /\ root' = r.root
        /\ focused' = r.focused
        /\ UNCHANGED <<themes, next_theme_handle, front_buffer, back_buffer, backend,
                   next_handle, next_anim_handle, returned, process,
                   next_choreo_group_handle>>

\* tui_destroy_subtree: validate, tree::destroy_subtree
tui_destroy_subtree(ns, tr, anims, tb, events, rt, fc, handle) ==
    IF ~validate_handle(ns, handle)
    THEN [ok |-> FALSE, nodes |-> ns, tree |-> tr, animations |-> anims,
          theme_bindings |-> tb, event_buffer |-> events, root |-> rt, focused |-> fc]
    ELSE destroy_subtree(ns, tr, anims, tb, events, rt, fc, handle)

DestroySubtree(handle) ==
    LET r == tui_destroy_subtree(nodes, tree, animations, theme_bindings,
                                 event_buffer, root, focused, handle)
    IN  /\ nodes' = r.nodes
        /\ tree' = r.tree
        /\ animations' = r.animations
        /\ LET cancelled_ids == AnimIds(animations) \ AnimIds(r.animations)
           IN  /\ animation_chains' = prune_chains(animation_chains, cancelled_ids)
               /\ choreo_groups' = remove_from_choreography(choreo_groups, cancelled_ids)
        /\ theme_bindings' = r.theme_bindings
        /\ event_buffer' = r.event_buffer
        /\ root' = r.root
        /\ focused' = r.focused
        /\ UNCHANGED <<themes, next_theme_handle, front_buffer, back_buffer, backend,
                   next_handle, next_anim_handle, returned, process,
                   next_choreo_group_handle>>

(***************************************************************************)
(* Entry points outside the tree (lib.rs, render.rs, animation.rs)         *)
(***************************************************************************)
\* tui_set_root
SetRoot(handle) ==
    /\ root' = IF validate_handle(nodes, handle) THEN handle ELSE root
    /\ UNCHANGED <<themes, next_theme_handle, front_buffer, back_buffer, backend,
                   nodes, tree, next_handle, focused, event_buffer, animations,
                   next_anim_handle, theme_bindings, returned, process,
                   animation_chains, choreo_groups, next_choreo_group_handle>>

\* tui_set_visible: writes the node's own fields only
SetVisible(handle, visible) ==
    /\ nodes' = IF validate_handle(nodes, handle)
                THEN [nodes EXCEPT ![handle].visible = visible, ![handle].dirty = TRUE]
                ELSE nodes
    /\ UNCHANGED <<themes, next_theme_handle, front_buffer, back_buffer, backend,
                   tree, next_handle, root, focused, event_buffer, animations,
                   next_anim_handle, theme_bindings, returned, process,
                   animation_chains, choreo_groups, next_choreo_group_handle>>

\* tui_mark_dirty
MarkDirty(handle) ==
    /\ nodes' = IF validate_handle(nodes, handle) THEN mark_dirty(nodes, handle)
                ELSE nodes
    /\ UNCHANGED <<themes, next_theme_handle, front_buffer, back_buffer, backend,
                   tree, next_handle, root, focused, event_buffer, animations,
                   next_anim_handle, theme_bindings, returned, process,
                   animation_chains, choreo_groups, next_choreo_group_handle>>

\* What the context holds that may refer to a node.
RefCount ==
    Len(event_buffer) + Len(animations) + Cardinality(DOMAIN theme_bindings)
        + (IF root # None THEN 1 ELSE 0) + (IF focused # None THEN 1 ELSE 0)

\* types.rs TuiEvent::key and TuiEvent::focus_change (event type, target, data)
KeyEvent(target) == [event_type |-> "Key", target |-> target, data |-> <<>>]

FocusChangeEvent(from, to) ==
    [event_type |-> "FocusChange", target |-> 0, data |-> <<from, to>>]

\* tui_focus
Focus(handle) ==
    /\ RefCount < MaxRefs
    /\ LET valid == validate_handle(nodes, handle)
           old == focused
       IN  /\ focused' = IF valid THEN handle ELSE focused
           /\ event_buffer' = IF valid /\ old # handle
                              THEN Append(event_buffer, FocusChangeEvent(old, handle))
                              ELSE event_buffer
    /\ UNCHANGED <<themes, next_theme_handle, front_buffer, back_buffer, backend,
                   nodes, tree, next_handle, root, animations, next_anim_handle,
                   theme_bindings, returned, process,
                   animation_chains, choreo_groups, next_choreo_group_handle>>

\* tui_read_input / event.rs read_input when the backend delivers one key
\* press that is neither Tab nor BackTab and that no widget consumes: the
\* event is addressed to the focused node, or to 0 without focus.
ReadInputKey ==
    /\ RefCount < MaxRefs
    /\ event_buffer' = Append(event_buffer, KeyEvent(focused))
    /\ UNCHANGED <<themes, next_theme_handle, front_buffer, back_buffer, backend,
                   nodes, tree, next_handle, root, focused, animations,
                   next_anim_handle, theme_bindings, returned, process,
                   animation_chains, choreo_groups, next_choreo_group_handle>>

\* types.rs Animation.  A spinner carries AnimProp::Opacity as a placeholder.
Animation(id, target, property, start_bits, end_bits, duration_ms, spinner) ==
    [id |-> id, target |-> target, property |-> property,
     start_bits |-> start_bits, end_bits |-> end_bits,
     duration_ms |-> duration_ms, elapsed_ms |-> 0,
     looping |-> FALSE, pending |-> FALSE, spinner |-> spinner]

\* tui_start_spinner / animation.rs start_spinner.  bound caps the animation
\* handles a run hands out.
StartSpinner(handle, bound) ==
    /\ next_anim_handle <= bound
    /\ RefCount < MaxRefs
    /\ LET valid == validate_handle(nodes, handle)
           id == next_anim_handle
       IN  /\ next_anim_handle' = IF valid THEN next_anim_handle + 1
                                  ELSE next_anim_handle
           /\ animations' = IF valid
                            THEN Append(animations,
                                        Animation(id, handle, "Opacity", 0, 0, 0, TRUE))
                            ELSE animations
    /\ UNCHANGED <<themes, next_theme_handle, front_buffer, back_buffer, backend,
                   nodes, tree, next_handle, root, focused, event_buffer,
                   animation_chains, choreo_groups, next_choreo_group_handle,
                   theme_bindings, returned, process>>

\* theme.rs mark_dirty_subtree: the node and its descendants by child lists
RECURSIVE SubtreeByChildren(_, _, _)
SubtreeByChildren(ns, frontier, seen) ==
    LET fresh == (frontier \cap DOMAIN ns) \ seen
    IN  IF fresh = {} THEN seen
        ELSE SubtreeByChildren(ns,
                 UNION {SeqToSet(ns[x].children) : x \in fresh}, seen \cup fresh)

mark_dirty_subtree(ns, handle) ==
    LET sub == SubtreeByChildren(ns, {handle}, {})
    IN  [x \in DOMAIN ns |-> IF x \in sub THEN [ns[x] EXCEPT !.dirty = TRUE] ELSE ns[x]]

\* tui_apply_theme / theme.rs apply_theme
ApplyTheme(theme_handle, node_handle) ==
    LET valid == theme_handle \in DOMAIN themes /\ validate_handle(nodes, node_handle)
    IN  /\ RefCount < MaxRefs
        /\ theme_bindings' = IF valid
                             THEN MapInsert(theme_bindings, node_handle, theme_handle)
                             ELSE theme_bindings
        /\ nodes' = IF valid THEN mark_dirty_subtree(nodes, node_handle) ELSE nodes
        /\ UNCHANGED <<themes, next_theme_handle, front_buffer, back_buffer, backend,
                   tree, next_handle, root, focused, event_buffer, animations,
                       next_anim_handle, returned, process,
                   animation_chains, choreo_groups, next_choreo_group_handle>>

\* Theme::default
DefaultTheme ==
    [fg_color |-> 0, bg_color |-> 0, border_color |-> 0, border_style |-> "None",
     attrs |-> {}, opacity |-> One, mask |-> {}]

\* theme.rs mark_dirty_theme_bindings: the subtrees of the nodes bound to
\* the theme
mark_dirty_theme_bindings(ns, tb, theme_handle) ==
    LET sub == SubtreeByChildren(ns, {n \in DOMAIN tb : tb[n] = theme_handle}, {})
    IN  [x \in DOMAIN ns |-> IF x \in sub THEN [ns[x] EXCEPT !.dirty = TRUE] ELSE ns[x]]

\* tui_create_theme / theme.rs create_theme.  bound caps the theme handles
\* a run hands out.
CreateTheme(bound) ==
    /\ next_theme_handle <= bound
    /\ themes' = MapInsert(themes, next_theme_handle, DefaultTheme)
    /\ next_theme_handle' = next_theme_handle + 1
    /\ UNCHANGED <<nodes, tree, next_handle, root, focused, event_buffer, animations,
                   next_anim_handle, animation_chains, choreo_groups,
                   next_choreo_group_handle, theme_bindings, front_buffer,
                   back_buffer, backend, returned, process>>

\* tui_destroy_theme / theme.rs destroy_theme
DestroyTheme(theme_handle) ==
    LET valid == /\ theme_handle \notin {DARK_THEME_HANDLE, LIGHT_THEME_HANDLE}
                 /\ theme_handle \in DOMAIN themes
        affected == {n \in DOMAIN theme_bindings : theme_bindings[n] = theme_handle}
    IN  /\ themes' = IF valid THEN MapRemove(themes, theme_handle) ELSE themes
        /\ theme_bindings' =
               IF valid
               THEN [n \in DOMAIN theme_bindings \ affected |-> theme_bindings[n]]
               ELSE theme_bindings
        /\ nodes' = IF valid
                    THEN mark_dirty_theme_bindings(nodes, theme_bindings, theme_handle)
                    ELSE nodes
        /\ UNCHANGED <<tree, next_handle, root, focused, event_buffer, animations,
                       next_anim_handle, animation_chains, choreo_groups,
                       next_choreo_group_handle, next_theme_handle, front_buffer,
                       back_buffer, backend, returned, process>>

\* tui_set_theme_color / theme.rs set_theme_color for prop 0 (fg_color),
\* 1 (bg_color) or 2 (border_color)
SetThemeColor(theme_handle, prop, color) ==
    LET valid == theme_handle \in DOMAIN themes
    IN  /\ themes' = IF valid
                     THEN [themes EXCEPT ![theme_handle][prop] = color,
                                         ![theme_handle].mask = @ \cup {prop}]
                     ELSE themes
        /\ nodes' = IF valid
                    THEN mark_dirty_theme_bindings(nodes, theme_bindings, theme_handle)
                    ELSE nodes
        /\ UNCHANGED <<tree, next_handle, root, focused, event_buffer, animations,
                       next_anim_handle, animation_chains, choreo_groups,
                       next_choreo_group_handle, theme_bindings, next_theme_handle,
                       front_buffer, back_buffer, backend, returned, process>>

\* tui_clear_theme / theme.rs clear_theme
ClearTheme(node_handle) ==
    LET bound == validate_handle(nodes, node_handle)
                     /\ node_handle \in DOMAIN theme_bindings
    IN  /\ theme_bindings' = IF bound THEN MapRemove(theme_bindings, node_handle)
                             ELSE theme_bindings
        /\ nodes' = IF bound THEN mark_dirty_subtree(nodes, node_handle) ELSE nodes
        /\ UNCHANGED <<tree, next_handle, root, focused, event_buffer, animations,
                       next_anim_handle, animation_chains, choreo_groups,
                       next_choreo_group_handle, themes, next_theme_handle,
                       front_buffer, back_buffer, backend, returned, process>>

(***************************************************************************)
(* Animation (animation.rs).  Easing is Easing::Linear; values and times   *)
(* are integers, and a run only takes steps whose interpolations are       *)
(* exact.                                                                  *)
(***************************************************************************)
\* The animated properties of the model: one that write_property clamps
\* and one that it stores as given.
AnimProps == {"Opacity", "PositionX"}

read_property(node, property) ==
    IF property = "Opacity" THEN node.opacity ELSE node.render_offset

\* f32::clamp
Clamp(v, lo, hi) == IF v < lo THEN lo ELSE IF v > hi THEN hi ELSE v

write_property(node, property, bits) ==
    IF property = "Opacity"
    THEN [node EXCEPT !.opacity = Clamp(bits, 0, One),
                      !.style_mask = @ \cup {"opacity"}]
    ELSE [node EXCEPT !.render_offset = bits]

\* interpolate at t = 1.0 for a zero duration, else at elapsed / duration
\* clamped to [0, 1]
interpolate(start_bits, end_bits, elapsed_ms, duration_ms) ==
    IF duration_ms = 0 \/ elapsed_ms >= duration_ms THEN end_bits
    ELSE start_bits + ((end_bits - start_bits) * elapsed_ms) \div duration_ms

\* The interpolation of an animation at an elapsed time is an integer.
ExactAt(a, elapsed_ms) ==
    IF a.duration_ms = 0 \/ elapsed_ms >= a.duration_ms THEN TRUE
    ELSE ((a.end_bits - a.start_bits) * elapsed_ms) % a.duration_ms = 0

\* The index of the first non-spinner animation on (target, property), or 0.
ConflictIndex(anims, target, property) ==
    LET hits == {k \in 1..Len(anims) : /\ anims[k].target = target
                                       /\ anims[k].property = property
                                       /\ ~anims[k].spinner}
    IN  IF hits = {} THEN 0 ELSE CHOOSE k \in hits : \A j \in hits : k <= j

\* A faulty replacement that leaves the conflicting animation in the registry.
KeepExisting(anims, idx) == anims

\* start_animation, line 239: ctx.animations.remove(idx)
DropExisting(anims, idx) == RemoveAt(anims, idx)

\* Returns [ok, animations, animation_chains, next_anim_handle, id].
start_animation(ns, anims, chains, next_id, target, property, target_bits, duration_ms) ==
    IF ~validate_handle(ns, target)
    THEN [ok |-> FALSE, animations |-> anims, animation_chains |-> chains,
          next_anim_handle |-> next_id, id |-> 0]
    ELSE
      LET idx == ConflictIndex(anims, target, property)
          start_bits == IF idx # 0
                        THEN interpolate(anims[idx].start_bits, anims[idx].end_bits,
                                         anims[idx].elapsed_ms, anims[idx].duration_ms)
                        ELSE read_property(ns[target], property)
          anims1 == IF idx # 0 THEN DropExisting(anims, idx) ELSE anims
          chains1 == IF idx # 0 THEN prune_chains(chains, {anims[idx].id}) ELSE chains
      IN  [ok |-> TRUE,
           animations |-> Append(anims1, Animation(next_id, target, property, start_bits,
                                                   target_bits, duration_ms, FALSE)),
           animation_chains |-> chains1,
           next_anim_handle |-> next_id + 1, id |-> next_id]

\* Returns [ok, nodes, animations, animation_chains, next_anim_handle, id].
start_progress(ns, anims, chains, next_id, target, duration_ms) ==
    IF ~validate_handle(ns, target)
    THEN [ok |-> FALSE, nodes |-> ns, animations |-> anims, animation_chains |-> chains,
          next_anim_handle |-> next_id, id |-> 0]
    ELSE
      LET anims1 == SelectSeq(anims, LAMBDA a : ~(/\ a.target = target
                                                  /\ a.property = "Opacity"
                                                  /\ ~a.spinner))
          ns1 == [ns EXCEPT ![target].opacity = 0, ![target].dirty = TRUE]
          r == start_animation(ns1, anims1, chains, next_id, target, "Opacity", One,
                               duration_ms)
      IN  [ok |-> TRUE, nodes |-> ns1, animations |-> r.animations,
           animation_chains |-> r.animation_chains,
           next_anim_handle |-> r.next_anim_handle, id |-> r.id]

\* looping = true on the animation anim_id
SetLoopingFlag(anims, anim_id) ==
    [k \in 1..Len(anims) |-> IF anims[k].id = anim_id
                             THEN [anims[k] EXCEPT !.looping = TRUE]
                             ELSE anims[k]]

\* pending = true and elapsed_ms = 0.0, as chain_animation and choreography_add do
Suspend(anims, anim_id) ==
    [k \in 1..Len(anims) |-> IF anims[k].id = anim_id
                             THEN [anims[k] EXCEPT !.pending = TRUE, !.elapsed_ms = 0]
                             ELSE anims[k]]

\* Returns [ok, animations, animation_chains, next_anim_handle, id].
start_pulse(ns, anims, chains, next_id, target, duration_ms) ==
    LET r == start_animation(ns, anims, chains, next_id, target, "Opacity", 0, duration_ms)
    IN  IF r.ok THEN [r EXCEPT !.animations = SetLoopingFlag(@, r.id)] ELSE r

\* Returns [ok, animations].
set_animation_looping(anims, anim_id) ==
    [ok |-> anim_id \in AnimIds(anims), animations |-> SetLoopingFlag(anims, anim_id)]

\* Returns [ok, animations, animation_chains].
chain_animation(anims, chains, after_anim, next_anim) ==
    IF after_anim \notin AnimIds(anims) \/ next_anim \notin AnimIds(anims)
    THEN [ok |-> FALSE, animations |-> anims, animation_chains |-> chains]
    ELSE [ok |-> TRUE, animations |-> Suspend(anims, next_anim),
          animation_chains |-> MapInsert(chains, after_anim, next_anim)]

\* types.rs ChoreographyGroup as create_choreography_group builds it
NewGroup == [running |-> FALSE, elapsed_ms |-> 0, members |-> <<>>]

\* Returns [choreo_groups, next_choreo_group_handle, id].
create_choreography_group(groups, next_id) ==
    [choreo_groups |-> MapInsert(groups, next_id, NewGroup),
     next_choreo_group_handle |-> next_id + 1, id |-> next_id]

\* members.push(member) followed by the stable sort_by_key(start_at_ms) on a
\* vector that was sorted before the push
PushSorted(members, member) ==
    SelectSeq(members, LAMBDA m : m.start_at_ms <= member.start_at_ms)
    \o <<member>>
    \o SelectSeq(members, LAMBDA m : m.start_at_ms > member.start_at_ms)

\* Returns [ok, animations, choreo_groups].
choreography_add(anims, groups, group_id, anim_id, start_at_ms) ==
    IF \/ group_id \notin DOMAIN groups
       \/ groups[group_id].running
       \/ \E k \in 1..Len(groups[group_id].members) :
              groups[group_id].members[k].anim_id = anim_id
       \/ anim_id \notin AnimIds(anims)
    THEN [ok |-> FALSE, animations |-> anims, choreo_groups |-> groups]
    ELSE [ok |-> TRUE, animations |-> Suspend(anims, anim_id),
          choreo_groups |->
              [groups EXCEPT ![group_id].members =
                  PushSorted(@, [anim_id |-> anim_id, start_at_ms |-> start_at_ms,
                                 started |-> FALSE])]]

\* The registry with pending cleared on every animation of a set.
Activate(anims, anim_ids) ==
    [k \in 1..Len(anims) |-> IF anims[k].id \in anim_ids
                             THEN [anims[k] EXCEPT !.pending = FALSE]
                             ELSE anims[k]]

\* Returns [ok, animations, choreo_groups].
choreography_start(anims, groups, group_id) ==
    IF group_id \notin DOMAIN groups
    THEN [ok |-> FALSE, animations |-> anims, choreo_groups |-> groups]
    ELSE IF groups[group_id].running
    THEN [ok |-> TRUE, animations |-> anims, choreo_groups |-> groups]
    ELSE
      LET members == groups[group_id].members
          at_zero == {members[k].anim_id : k \in {j \in 1..Len(members) :
                                                    members[j].start_at_ms = 0}}
      IN  [ok |-> TRUE, animations |-> Activate(anims, at_zero),
           choreo_groups |->
               [groups EXCEPT ![group_id] =
                   [running |-> TRUE, elapsed_ms |-> 0,
                    members |-> [k \in 1..Len(members) |->
                                   [members[k] EXCEPT !.started =
                                       (members[k].start_at_ms = 0)]]]]]

KeepChain(chains, anim_id) == chains

\* cancel_animation: animation_chains.remove(&anim_id), so that the chained
\* successor is not started.
DiscardChain(chains, anim_id) == MapRemove(chains, anim_id)

\* cancel_animation.  Returns [ok, animations, animation_chains, choreo_groups].
cancel_animation(anims, chains, groups, anim_id) ==
    IF anim_id \notin AnimIds(anims)
    THEN [ok |-> FALSE, animations |-> anims, animation_chains |-> chains,
          choreo_groups |-> groups]
    ELSE [ok |-> TRUE,
          animations |-> SelectSeq(anims, LAMBDA a : a.id # anim_id),
          animation_chains |-> DiscardChain(chains, anim_id),
          choreo_groups |-> remove_from_choreography(groups, {anim_id})]

\* The members of a group that have not started and whose animation is in
\* the registry and pending: choreography_cancel and
\* destroy_choreography_group cancel these, one after the other.
\* A faulty cancellation that leaves the members that have not started.
KeepPendingMembers(st, members) == st

RECURSIVE CancelPendingMembers(_, _)
CancelPendingMembers(st, members) ==
    IF members = <<>> THEN st
    ELSE
      LET m == Head(members)
          pending == \E k \in 1..Len(st.animations) :
                         st.animations[k].id = m.anim_id /\ st.animations[k].pending
          st1 == IF ~m.started /\ pending
                 THEN cancel_animation(st.animations, st.animation_chains,
                                       st.choreo_groups, m.anim_id)
                 ELSE st
      IN  CancelPendingMembers(st1, Tail(members))

\* Returns [ok, animations, animation_chains, choreo_groups].
choreography_cancel(anims, chains, groups, group_id) ==
    LET st == [ok |-> TRUE, animations |-> anims, animation_chains |-> chains,
               choreo_groups |-> groups]
    IN  IF group_id \notin DOMAIN groups THEN [st EXCEPT !.ok = FALSE]
        ELSE LET st1 == CancelPendingMembers(st, groups[group_id].members)
             IN  IF group_id \in DOMAIN st1.choreo_groups
                 THEN [st1 EXCEPT !.ok = TRUE, !.choreo_groups[group_id].running = FALSE]
                 ELSE [st1 EXCEPT !.ok = TRUE]

\* Returns [ok, animations, animation_chains, choreo_groups].
destroy_choreography_group(anims, chains, groups, group_id) ==
    LET st == [ok |-> TRUE, animations |-> anims, animation_chains |-> chains,
               choreo_groups |-> groups]
    IN  IF group_id \notin DOMAIN groups THEN [st EXCEPT !.ok = FALSE]
        ELSE [CancelPendingMembers([st EXCEPT !.choreo_groups = MapRemove(groups, group_id)],
                                   groups[group_id].members)
              EXCEPT !.ok = TRUE]

Max(a, b) == IF a >= b THEN a ELSE b

\* advance_choreography: the members of a running group whose start offset
\* the group clock reaches in this tick
Crossed(group, elapsed_ms) ==
    {k \in 1..Len(group.members) :
        /\ ~group.members[k].started
        /\ group.elapsed_ms + elapsed_ms >= group.members[k].start_at_ms}

\* A faulty start that credits a member the whole tick.
FullSlice(group, member, elapsed_ms) == elapsed_ms

\* the part of the tick that lies after the start offset of a member
ActiveElapsed(group, member, elapsed_ms) ==
    Clamp((group.elapsed_ms + elapsed_ms) - Max(group.elapsed_ms, member.start_at_ms),
          0, elapsed_ms)

AdvanceGroup(group, elapsed_ms) ==
    IF ~group.running THEN group
    ELSE
      LET crossed == Crossed(group, elapsed_ms)
          members == [k \in 1..Len(group.members) |->
                        IF k \in crossed
                        THEN [group.members[k] EXCEPT !.started = TRUE]
                        ELSE group.members[k]]
      IN  [running |-> \E k \in 1..Len(members) : ~members[k].started,
           elapsed_ms |-> group.elapsed_ms + elapsed_ms,
           members |-> members]

\* Returns [animations, choreo_groups, activation]; activation maps each
\* animation started in this tick to the largest slice a group credits it.
advance_choreography(anims, groups, elapsed_ms) ==
    LET to_start == UNION {
            {[anim_id |-> groups[g].members[k].anim_id,
              active_elapsed |-> ActiveElapsed(groups[g], groups[g].members[k], elapsed_ms)]
                : k \in Crossed(groups[g], elapsed_ms)}
            : g \in {x \in DOMAIN groups : groups[x].running}}
        started == {s.anim_id : s \in to_start} \cap AnimIds(anims)
    IN  [animations |-> Activate(anims, started),
         choreo_groups |-> [g \in DOMAIN groups |-> AdvanceGroup(groups[g], elapsed_ms)],
         activation |-> [id \in started |->
             CHOOSE e \in {s.active_elapsed : s \in {x \in to_start : x.anim_id = id}} :
                 \A s \in to_start : s.anim_id = id => s.active_elapsed <= e]]

\* A faulty completion test that lets an animation run one tick too long.
CompletedLate(elapsed_ms, duration_ms) == elapsed_ms > duration_ms

\* advance_animations, line 654: anim.elapsed_ms >= anim.duration_ms
Completed(elapsed_ms, duration_ms) == elapsed_ms >= duration_ms

\* The step of one animation of the registry in a tick.  Returns
\* [anim, touched, write, bits, completed]: the animation after the step,
\* whether its target is marked dirty, whether bits is written to its
\* property, and whether it is removed as a completed one-shot.
StepAnimation(a, activation, elapsed_ms) ==
    LET slice == IF a.id \in DOMAIN activation THEN activation[a.id] ELSE elapsed_ms
        elapsed == a.elapsed_ms + slice
        kept == [anim |-> a, touched |-> FALSE, write |-> FALSE, bits |-> 0,
                 completed |-> FALSE]
    IN  IF a.pending THEN kept
        ELSE IF a.spinner THEN [kept EXCEPT !.touched = TRUE]
        ELSE IF Completed(elapsed, a.duration_ms)
        THEN IF a.looping
             THEN LET rest == elapsed - a.duration_ms
                  IN  [anim |-> [a EXCEPT !.elapsed_ms = rest,
                                          !.start_bits = a.end_bits,
                                          !.end_bits = a.start_bits],
                       touched |-> TRUE, write |-> TRUE,
                       bits |-> interpolate(a.end_bits, a.start_bits, rest, a.duration_ms),
                       completed |-> FALSE]
             ELSE [anim |-> [a EXCEPT !.elapsed_ms = elapsed],
                   touched |-> TRUE, write |-> TRUE, bits |-> a.end_bits,
                   completed |-> TRUE]
        ELSE [anim |-> [a EXCEPT !.elapsed_ms = elapsed],
              touched |-> TRUE, write |-> TRUE,
              bits |-> interpolate(a.start_bits, a.end_bits, elapsed, a.duration_ms),
              completed |-> FALSE]

\* advance_animations, "Apply property updates to nodes" and "Apply spinner
\* content updates to nodes": the property is written, the node is dirty.
RECURSIVE ApplyUpdates(_, _)
ApplyUpdates(ns, steps) ==
    IF steps = <<>> THEN ns
    ELSE
      LET s == Head(steps)
          target == s.anim.target
          ns1 == IF s.touched /\ target \in DOMAIN ns
                 THEN [ns EXCEPT ![target] =
                          [(IF s.write THEN write_property(@, s.anim.property, s.bits)
                            ELSE @) EXCEPT !.dirty = TRUE]]
                 ELSE ns
      IN  ApplyUpdates(ns1, Tail(steps))

\* advance_animations, "Propagate dirty flags to ancestors"
RECURSIVE AdvanceEach(_, _)
AdvanceEach(ns, steps) ==
    IF steps = <<>> THEN ns
    ELSE AdvanceEach(IF Head(steps).touched
                     THEN mark_dirty(ns, Head(steps).anim.target)
                     ELSE ns,
                     Tail(steps))

\* A faulty tick that never starts a chained successor.
NoSuccessors(chains, completed_ids) == {}

\* advance_animations, "Activate chained successors of completed one-shot
\* animations": the successors the chain map names for the completed ids
ChainedSuccessors(chains, completed_ids) ==
    {chains[c] : c \in completed_ids \cap DOMAIN chains}

\* Returns [nodes, animations, animation_chains, choreo_groups].
advance_animations(ns, anims, chains, groups, elapsed_ms) ==
    IF elapsed_ms <= 0
    THEN [nodes |-> ns, animations |-> anims, animation_chains |-> chains,
          choreo_groups |-> groups]
    ELSE
      LET ch == advance_choreography(anims, groups, elapsed_ms)
      IN  IF ch.animations = <<>>
          THEN [nodes |-> ns, animations |-> ch.animations, animation_chains |-> chains,
                choreo_groups |-> ch.choreo_groups]
          ELSE
            LET steps == [k \in 1..Len(ch.animations) |->
                            StepAnimation(ch.animations[k], ch.activation, elapsed_ms)]
                completed_ids == {steps[k].anim.id : k \in {j \in 1..Len(steps) :
                                                               steps[j].completed}}
                successors == ChainedSuccessors(chains, completed_ids)
                stepped == [k \in 1..Len(steps) |-> steps[k].anim]
            IN  [nodes |-> AdvanceEach(ApplyUpdates(ns, steps), steps),
                 animations |-> SelectSeq(Activate(stepped, successors),
                                          LAMBDA a : a.id \notin completed_ids),
                 animation_chains |-> [c \in DOMAIN chains \ completed_ids |-> chains[c]],
                 choreo_groups |-> remove_from_choreography(ch.choreo_groups,
                                                            completed_ids)]

\* tui_animate / animation.rs start_animation.  bound caps the animation
\* handles a run hands out.
Animate(handle, property, target_bits, duration_ms, bound) ==
    /\ next_anim_handle <= bound
    /\ LET r == start_animation(nodes, animations, animation_chains, next_anim_handle,
                                handle, property, target_bits, duration_ms)
       IN  /\ animations' = r.animations
           /\ animation_chains' = r.animation_chains
           /\ next_anim_handle' = r.next_anim_handle
    /\ UNCHANGED <<themes, next_theme_handle, front_buffer, back_buffer, backend,
                   nodes, tree, next_handle, root, focused, event_buffer,
                   choreo_groups, next_choreo_group_handle, theme_bindings, returned, process>>

\* tui_start_progress
StartProgress(handle, duration_ms, bound) ==
    /\ next_anim_handle <= bound
    /\ LET r == start_progress(nodes, animations, animation_chains, next_anim_handle,
                               handle, duration_ms)
       IN  /\ nodes' = r.nodes
           /\ animations' = r.animations
           /\ animation_chains' = r.animation_chains
           /\ next_anim_handle' = r.next_anim_handle
    /\ UNCHANGED <<themes, next_theme_handle, front_buffer, back_buffer, backend,
                   tree, next_handle, root, focused, event_buffer,
                   choreo_groups, next_choreo_group_handle, theme_bindings, returned, process>>

\* tui_start_pulse
StartPulse(handle, duration_ms, bound) ==
    /\ next_anim_handle <= bound
    /\ LET r == start_pulse(nodes, animations, animation_chains, next_anim_handle,
                            handle, duration_ms)
       IN  /\ animations' = r.animations
           /\ animation_chains' = r.animation_chains
           /\ next_anim_handle' = r.next_anim_handle
    /\ UNCHANGED <<themes, next_theme_handle, front_buffer, back_buffer, backend,
                   nodes, tree, next_handle, root, focused, event_buffer,
                   choreo_groups, next_choreo_group_handle, theme_bindings, returned, process>>

\* tui_set_animation_looping
SetAnimationLooping(anim_id) ==
    /\ animations' = set_animation_looping(animations, anim_id).animations
    /\ UNCHANGED <<themes, next_theme_handle, front_buffer, back_buffer, backend,
                   nodes, tree, next_handle, root, focused, event_buffer,
                   next_anim_handle, animation_chains, choreo_groups,
                   next_choreo_group_handle, theme_bindings, returned, process>>

\* tui_chain_animation
ChainAnimation(after_anim, next_anim) ==
    /\ LET r == chain_animation(animations, animation_chains, after_anim, next_anim)
       IN  /\ animations' = r.animations
           /\ animation_chains' = r.animation_chains
    /\ UNCHANGED <<themes, next_theme_handle, front_buffer, back_buffer, backend,
                   nodes, tree, next_handle, root, focused, event_buffer,
                   next_anim_handle, choreo_groups, next_choreo_group_handle,
                   theme_bindings, returned, process>>

\* tui_create_choreo_group.  bound caps the group handles a run hands out.
CreateChoreoGroup(bound) ==
    /\ next_choreo_group_handle <= bound
    /\ LET r == create_choreography_group(choreo_groups, next_choreo_group_handle)
       IN  /\ choreo_groups' = r.choreo_groups
           /\ next_choreo_group_handle' = r.next_choreo_group_handle
    /\ UNCHANGED <<themes, next_theme_handle, front_buffer, back_buffer, backend,
                   nodes, tree, next_handle, root, focused, event_buffer, animations,
                   next_anim_handle, animation_chains, theme_bindings, returned, process>>

\* tui_choreo_add
ChoreoAdd(group_id, anim_id, start_at_ms) ==
    /\ LET r == choreography_add(animations, choreo_groups, group_id, anim_id,
                                 start_at_ms)
       IN  /\ animations' = r.animations
           /\ choreo_groups' = r.choreo_groups
    /\ UNCHANGED <<themes, next_theme_handle, front_buffer, back_buffer, backend,
                   nodes, tree, next_handle, root, focused, event_buffer,
                   next_anim_handle, animation_chains, next_choreo_group_handle,
                   theme_bindings, returned, process>>

\* tui_choreo_start
ChoreoStart(group_id) ==
    /\ LET r == choreography_start(animations, choreo_groups, group_id)
       IN  /\ animations' = r.animations
           /\ choreo_groups' = r.choreo_groups
    /\ UNCHANGED <<themes, next_theme_handle, front_buffer, back_buffer, backend,
                   nodes, tree, next_handle, root, focused, event_buffer,
                   next_anim_handle, animation_chains, next_choreo_group_handle,
                   theme_bindings, returned, process>>

\* tui_choreo_cancel
ChoreoCancel(group_id) ==
    /\ LET r == choreography_cancel(animations, animation_chains, choreo_groups,
                                    group_id)
       IN  /\ animations' = r.animations
           /\ animation_chains' = r.animation_chains
           /\ choreo_groups' = r.choreo_groups
    /\ UNCHANGED <<themes, next_theme_handle, front_buffer, back_buffer, backend,
                   nodes, tree, next_handle, root, focused, event_buffer,
                   next_anim_handle, next_choreo_group_handle, theme_bindings,
                   returned, process>>

\* tui_destroy_choreo_group
DestroyChoreoGroup(group_id) ==
    /\ LET r == destroy_choreography_group(animations, animation_chains,
                                           choreo_groups, group_id)
       IN  /\ animations' = r.animations
           /\ animation_chains' = r.animation_chains
           /\ choreo_groups' = r.choreo_groups
    /\ UNCHANGED <<themes, next_theme_handle, front_buffer, back_buffer, backend,
                   nodes, tree, next_handle, root, focused, event_buffer,
                   next_anim_handle, next_choreo_group_handle, theme_bindings,
                   returned, process>>

\* tui_cancel_animation
CancelAnimation(anim_id) ==
    /\ LET r == cancel_animation(animations, animation_chains, choreo_groups, anim_id)
       IN  /\ animations' = r.animations
           /\ animation_chains' = r.animation_chains
           /\ choreo_groups' = r.choreo_groups
    /\ UNCHANGED <<themes, next_theme_handle, front_buffer, back_buffer, backend,
                   nodes, tree, next_handle, root, focused, event_buffer,
                   next_anim_handle, next_choreo_group_handle, theme_bindings,
                   returned, process>>

(***************************************************************************)
(* Style resolution (style.rs)                                             *)
(***************************************************************************)
\* VisualStyle::default
DefaultStyle ==
    [fg_color |-> 0, bg_color |-> 0, border_style |-> "None", border_color |-> 0,
     attrs |-> {}, opacity |-> One, style_mask |-> {}]

\* node.visual_style
VisualStyle(node) ==
    [fg_color |-> node.fg_color, bg_color |-> node.bg_color,
     border_style |-> node.border_style, border_color |-> node.border_color,
     attrs |-> node.attrs, opacity |-> node.opacity, style_mask |-> node.style_mask]

\* find_nearest_theme: <<theme>> for Some(theme), <<>> for None.  The walk
\* stops at the first bound node, also when the bound handle names no theme.
\* fuel ends the walk on a parent cycle, where the code's loop would not
\* return.
RECURSIVE find_nearest_theme(_, _, _, _, _)
find_nearest_theme(ns, tb, ths, current, fuel) ==
    IF current \in DOMAIN tb
    THEN (IF tb[current] \in DOMAIN ths THEN <<ths[tb[current]]>> ELSE <<>>)
    ELSE IF fuel = 0 \/ current \notin DOMAIN ns \/ ns[current].parent = None
    THEN <<>>
    ELSE find_nearest_theme(ns, tb, ths, ns[current].parent, fuel - 1)

\* A faulty merge in which the theme overrides what the node has set.
ThemeFirst(style, theme, p) ==
    IF p \in theme.mask THEN theme[p] ELSE style[p]

\* resolve_style, lines 144-165: one property of the merge
Merge(style, theme, p) ==
    IF p \notin style.style_mask /\ p \in theme.mask THEN theme[p] ELSE style[p]

resolve_style(ns, tb, ths, handle) ==
    IF handle \notin DOMAIN ns THEN DefaultStyle
    ELSE
      LET style == VisualStyle(ns[handle])
          found == find_nearest_theme(ns, tb, ths, handle, Cardinality(DOMAIN ns))
      IN  IF style.style_mask = StyleProps \/ tb = <<>> \/ found = <<>>
          THEN style
          ELSE [p \in DOMAIN style |->
                   IF p \in StyleProps THEN Merge(style, found[1], p) ELSE style[p]]

(***************************************************************************)
(* Scroll state (scroll.rs)                                                *)
(***************************************************************************)
\* compute_max_scroll: <<max_scroll_x, max_scroll_y>> from the layout the
\* solver computed last
compute_max_scroll(ns, tr, handle) ==
    IF handle \notin DOMAIN ns \/ handle \notin DOMAIN tr THEN <<0, 0>>
    ELSE
      LET node == ns[handle]
          inset == IF node.border_style # "None" THEN 2 ELSE 0
          viewport_w == IF inset = 0 THEN tr[handle].layout.w
                        ELSE Max(tr[handle].layout.w - inset, 0)
          viewport_h == IF inset = 0 THEN tr[handle].layout.h
                        ELSE Max(tr[handle].layout.h - inset, 0)
      IN  IF node.children = <<>> THEN <<0, 0>>
          ELSE IF node.children[1] \notin DOMAIN ns
                  \/ node.children[1] \notin DOMAIN tr THEN <<0, 0>>
          ELSE <<Max(tr[node.children[1]].layout.w - viewport_w, 0),
                 Max(tr[node.children[1]].layout.h - viewport_h, 0)>>

\* A faulty clamp that holds the offset below the maximum only.
ClampAbove(v, lo, hi) == IF v > hi THEN hi ELSE v

\* i32::clamp(0, max) of a scroll offset
ClampScroll(v, lo, hi) == Clamp(v, lo, hi)

\* set_scroll.  Returns [ok, nodes].
set_scroll(ns, tr, handle, x, y) ==
    IF handle \notin DOMAIN ns \/ ns[handle].node_type # "ScrollBox"
    THEN [ok |-> FALSE, nodes |-> ns]
    ELSE
      LET max_scroll == compute_max_scroll(ns, tr, handle)
      IN  [ok |-> TRUE,
           nodes |-> [ns EXCEPT ![handle].scroll_x = ClampScroll(x, 0, max_scroll[1]),
                                ![handle].scroll_y = ClampScroll(y, 0, max_scroll[2]),
                                ![handle].dirty = TRUE]]

\* i32 addition: whether a + b leaves the range of i32, and the sum a build
\* without overflow checks wraps it to
AddOverflows(a, b) ==
    \/ b > 0 /\ a > I32_MAX - b
    \/ b < 0 /\ a < (0 - I32_MAX - 1) - b

WrappingAdd(a, b) ==
    IF b > 0 /\ a > I32_MAX - b THEN (a - I32_MAX - 1) + (b - I32_MAX - 1)
    ELSE IF b < 0 /\ a < (0 - I32_MAX - 1) - b THEN (a + I32_MAX + 1) + (b + I32_MAX + 1)
    ELSE a + b

\* scroll_by.  The sums scroll_x + dx and scroll_y + dy are i32 additions:
\* with overflow_checks (a debug build) an overflowing sum panics and the
\* call ends there, without them (a release build) the sum wraps.
scroll_by(ns, tr, handle, dx, dy, overflow_checks) ==
    IF handle \notin DOMAIN ns \/ ns[handle].node_type # "ScrollBox" THEN ns
    ELSE
      LET max_scroll == compute_max_scroll(ns, tr, handle)
          node == ns[handle]
          with_x == [ns EXCEPT ![handle].scroll_x =
                        ClampScroll(WrappingAdd(node.scroll_x, dx), 0, max_scroll[1])]
      IN  IF overflow_checks /\ AddOverflows(node.scroll_x, dx) THEN ns
          ELSE IF overflow_checks /\ AddOverflows(node.scroll_y, dy) THEN with_x
          ELSE [with_x EXCEPT ![handle].scroll_y =
                                  ClampScroll(WrappingAdd(node.scroll_y, dy), 0,
                                              max_scroll[2]),
                              ![handle].dirty = TRUE]

\* Whether scroll_by panics: a build with overflow checks, and one of its
\* two sums overflows
scroll_by_panics(ns, handle, dx, dy, overflow_checks) ==
    /\ overflow_checks
    /\ handle \in DOMAIN ns
    /\ ns[handle].node_type = "ScrollBox"
    /\ (AddOverflows(ns[handle].scroll_x, dx) \/ AddOverflows(ns[handle].scroll_y, dy))

(***************************************************************************)
(* Render pipeline (render.rs)                                             *)
(***************************************************************************)
\* ClipRect::full
ClipFull(width, height) == [x |-> 0, y |-> 0, w |-> width, h |-> height]

\* ClipRect::intersect
ClipIntersect(a, b) ==
    LET x1 == Max(a.x, b.x)
        y1 == Max(a.y, b.y)
        x2 == Min(a.x + a.w, b.x + b.w)
        y2 == Min(a.y + a.h, b.y + b.h)
    IN  [x |-> x1, y |-> y1, w |-> Max(x2 - x1, 0), h |-> Max(y2 - y1, 0)]

\* ClipRect::contains
ClipContains(clip, sx, sy) ==
    sx >= clip.x /\ sx < clip.x + clip.w /\ sy >= clip.y /\ sy < clip.y + clip.h

\* types.rs color_tag
color_tag(color) == (color \div 16777216) % 256

\* One channel of blend_opacity: (fg * op + bg * (1 - op)).round(), with the
\* opacity in quarters
BlendChannel(fg, bg, opacity) == (fg * opacity + bg * (One - opacity) + 2) \div One

\* blend_opacity
blend_opacity(fg, bg, opacity) ==
    IF opacity >= One THEN fg
    ELSE IF opacity <= 0 THEN bg
    ELSE IF color_tag(fg) # 1 THEN fg
    ELSE
      LET bg_rgb == IF color_tag(bg) = 1 THEN bg % 16777216 ELSE 0
          r == BlendChannel((fg \div 65536) % 256, (bg_rgb \div 65536) % 256, opacity)
          g == BlendChannel((fg \div 256) % 256, (bg_rgb \div 256) % 256, opacity)
          b == BlendChannel(fg % 256, bg_rgb % 256, opacity)
      IN  16777216 + Min(r, 255) * 65536 + Min(g, 255) * 256 + Min(b, 255)

\* f32::round of a value in quarters, as i32
RoundQuarters(v) == IF v >= 0 THEN (v + 2) \div One ELSE 0 - ((2 - v) \div One)

\* The part of a border that render_border writes at <<px, py>> for a node
\* at <<x, y>> of size w * h; "" where it writes none.  The top-left corner
\* is written for every size.
BorderPart(x, y, w, h, px, py) ==
    IF px = x /\ py = y THEN "tl"
    ELSE IF w > 1 /\ px = x + w - 1 /\ py = y THEN "tr"
    ELSE IF h > 1 /\ px = x /\ py = y + h - 1 THEN "bl"
    ELSE IF w > 1 /\ h > 1 /\ px = x + w - 1 /\ py = y + h - 1 THEN "br"
    ELSE IF px - x >= 1 /\ px - x < w - 1 /\ (py = y \/ (h > 1 /\ py = y + h - 1))
    THEN "horiz"
    ELSE IF py - y >= 1 /\ py - y < h - 1 /\ (px = x \/ (w > 1 /\ px = x + w - 1))
    THEN "vert"
    ELSE ""

\* The cell render_node leaves at pos for a node of the resolved style at
\* <<x, y>> of size w * h: the border over the background fill over what the
\* buffer holds; clip_set and Buffer::set drop a write outside the clip, at
\* a negative coordinate or outside the buffer.
PaintNode(buffer, style, fg, x, y, w, h, clip) ==
    [buffer EXCEPT !.cells =
        [pos \in DOMAIN buffer.cells |->
            LET inside == ClipContains(clip, pos[1], pos[2])
                part == BorderPart(x, y, w, h, pos[1], pos[2])
            IN  IF inside /\ style.border_style # "None" /\ part # ""
                THEN [ch |-> BorderChar(style.border_style, part), fg |-> fg,
                      bg |-> style.bg_color, attrs |-> {}]
                ELSE IF /\ inside /\ style.bg_color # 0
                        /\ pos[1] >= x /\ pos[1] < x + w
                        /\ pos[2] >= y /\ pos[2] < y + h
                THEN [ch |-> Space, fg |-> 0, bg |-> style.bg_color,
                      attrs |-> {}]
                ELSE buffer.cells[pos]]]

\* render_node.  ctx carries nodes, tree, theme_bindings, themes,
\* front_buffer and ok; ok is FALSE once a node has no layout, and the
\* traversal stops there.  Of a node the border and the background are
\* painted; the text of a Text, Input, Select or TextArea node is not
\* modelled.  fuel bounds the depth of the traversal.
RECURSIVE render_node(_, _, _, _, _, _)
RECURSIVE RenderChildren(_, _, _, _, _, _)
render_node(ctx, handle, parent_x, parent_y, clip, fuel) ==
    IF ~ctx.ok \/ fuel = 0 \/ handle \notin DOMAIN ctx.nodes THEN ctx
    ELSE IF ~ctx.nodes[handle].visible THEN ctx
    ELSE IF handle \notin DOMAIN ctx.tree THEN [ctx EXCEPT !.ok = FALSE]
    ELSE
      LET node == ctx.nodes[handle]
          layout == ctx.tree[handle].layout
          abs_x == parent_x + layout.x + RoundQuarters(node.render_offset)
          abs_y == parent_y + layout.y
          resolved == resolve_style(ctx.nodes, ctx.theme_bindings, ctx.themes, handle)
          fg == blend_opacity(resolved.fg_color, resolved.bg_color, resolved.opacity)
          painted == [ctx EXCEPT !.front_buffer =
                         PaintNode(@, resolved, fg, abs_x, abs_y, layout.w, layout.h,
                                   clip)]
          bordered == resolved.border_style # "None"
          content_x == IF bordered THEN abs_x + 1 ELSE abs_x
          content_y == IF bordered THEN abs_y + 1 ELSE abs_y
          content_w == IF bordered THEN Max(layout.w - 2, 0) ELSE layout.w
          content_h == IF bordered THEN Max(layout.h - 2, 0) ELSE layout.h
      IN  IF node.node_type = "ScrollBox"
          THEN
            LET max_scroll == compute_max_scroll(painted.nodes, painted.tree, handle)
                clamped_sx == ClampScroll(node.scroll_x, 0, max_scroll[1])
                clamped_sy == ClampScroll(node.scroll_y, 0, max_scroll[2])
                child_clip == ClipIntersect(clip, [x |-> content_x, y |-> content_y,
                                                   w |-> content_w, h |-> content_h])
            IN  RenderChildren([painted EXCEPT !.nodes[handle].scroll_x = clamped_sx,
                                               !.nodes[handle].scroll_y = clamped_sy],
                               node.children, content_x - clamped_sx,
                               content_y - clamped_sy, child_clip, fuel - 1)
          ELSE RenderChildren(painted, node.children, abs_x, abs_y, clip, fuel - 1)

RenderChildren(ctx, children, x, y, clip, fuel) ==
    IF children = <<>> \/ ~ctx.ok THEN ctx
    ELSE RenderChildren(render_node(ctx, Head(children), x, y, clip, fuel),
                        Tail(children), x, y, clip, fuel)

\* The positions of a buffer in the order diff_buffers visits them: row by
\* row, each row from the left.
ScanOrder(buffer) ==
    [k \in 1..(buffer.width * buffer.height) |->
        <<(k - 1) % buffer.width, (k - 1) \div buffer.width>>]

\* A faulty comparison that also reports the cells that differ from the
\* default cell.
ChangedOrSet(front, back, pos) ==
    pos \notin DOMAIN back.cells \/ front.cells[pos] # back.cells[pos]
        \/ front.cells[pos] # BlankCell

\* diff_buffers, lines 1208-1213: back.get(x, y) is None or differs from front
Changed(front, back, pos) ==
    pos \notin DOMAIN back.cells \/ front.cells[pos] # back.cells[pos]

\* diff_buffers: the CellUpdates of the changed cells
diff_buffers(front, back) ==
    LET order == ScanOrder(front)
        updates == [k \in 1..Len(order) |->
                      [x |-> order[k][1], y |-> order[k][2],
                       cell |-> front.cells[order[k]]]]
    IN  SelectSeq(updates, LAMBDA u : Changed(front, back, <<u.x, u.y>>))

\* The layout the solver computes for a handle: Taffy is a library outside
\* this source, and solved is its result for the styles the host has set,
\* ZeroLayout for a handle that solved does not hold.
LayoutOf(solved, handle) ==
    IF handle \in DOMAIN solved THEN solved[handle] ELSE ZeroLayout

\* The result of the solver for a tree of nodes without dimensions
Unsized == <<>>

\* layout.rs compute_layout fails without a root
compute_layout_ok(ns, rt) == rt # None /\ rt \in DOMAIN ns

\* layout.rs compute_layout: tree.compute_layout(root) stores a layout in
\* every node of the tree under the root
compute_layout(tr, rt, solved) ==
    LET reached == SubtreeByChildren(tr, {rt}, {})
    IN  [x \in DOMAIN tr |->
            IF x \in reached THEN [tr[x] EXCEPT !.layout = LayoutOf(solved, x)]
            ELSE tr[x]]

\* render, the resize of line 139: both buffers are resized, and cleared by
\* that, when the size of the terminal differs from the size of the buffers
ResizeBuffers(ctx, w, h) ==
    IF ctx.front_buffer.width # w \/ ctx.front_buffer.height # h
    THEN [ctx EXCEPT !.front_buffer = NewBuffer(w, h), !.back_buffer = NewBuffer(w, h)]
    ELSE ctx

\* render, lines 146 to 152: clear the front buffer and traverse the tree
\* from the root
ClearAndPaint(ctx, w, h) ==
    render_node([ctx EXCEPT !.front_buffer = NewBuffer(w, h)], ctx.root, 0, 0,
                ClipFull(w, h), Cardinality(DOMAIN ctx.nodes) + 1)

\* The animation values that a context takes from another
WithAnimationsOf(ctx, ticked) ==
    [ctx EXCEPT !.nodes = ticked.nodes, !.animations = ticked.animations,
                !.animation_chains = ticked.animation_chains,
                !.choreo_groups = ticked.choreo_groups]

\* A faulty pipeline that computes the layout and paints before the
\* animations advance: the frame shows what the nodes held before the tick.
PaintBeforeTick(ctx, ticked, solved) ==
    WithAnimationsOf(
        ClearAndPaint(
            ResizeBuffers([ctx EXCEPT !.tree = compute_layout(ctx.tree, ctx.root, solved)],
                          ctx.backend.width, ctx.backend.height),
            ctx.backend.width, ctx.backend.height),
        ticked)

\* render, steps 1 to 3 on the context the animation tick has left: compute
\* the layout, resize both buffers when the terminal size has changed,
\* clear the front buffer and traverse the tree from the root.
LayoutAndPaint(ctx, ticked, solved) ==
    ClearAndPaint(
        ResizeBuffers([ticked EXCEPT !.tree = compute_layout(ticked.tree, ticked.root,
                                                             solved)],
                      ctx.backend.width, ctx.backend.height),
        ctx.backend.width, ctx.backend.height)

\* render, steps 5 to 7 on the painted context and its diff: write_diff and
\* flush, each of which may fail and end the call, then the swap of the
\* buffers and clear_dirty_flags.  backend.written is the diff that the
\* backend has been given last.
Deliver(painted, diff, write_ok, flush_ok) ==
    IF ~painted.ok THEN painted
    ELSE IF ~write_ok THEN [painted EXCEPT !.ok = FALSE]
    ELSE IF ~flush_ok THEN [painted EXCEPT !.backend.written = diff, !.ok = FALSE]
    ELSE [painted EXCEPT !.backend.written = diff,
                         !.front_buffer = painted.back_buffer,
                         !.back_buffer = painted.front_buffer,
                         !.nodes = clear_dirty_flags(@)]

\* render, step 4 and on: the diff of the painted front buffer against the
\* back buffer
DiffAndDeliver(painted, write_ok, flush_ok) ==
    Deliver(painted, diff_buffers(painted.front_buffer, painted.back_buffer),
            write_ok, flush_ok)

\* render after the animation tick: compute_layout fails without a root
RenderTicked(ctx, ticked, solved, write_ok, flush_ok) ==
    IF ~compute_layout_ok(ticked.nodes, ticked.root)
    THEN [ticked EXCEPT !.ok = FALSE]
    ELSE DiffAndDeliver(LayoutAndPaint(ctx, ticked, solved), write_ok, flush_ok)

\* The context with what advance_animations has returned
Ticked(ctx, t) ==
    [ctx EXCEPT !.nodes = t.nodes, !.animations = t.animations,
                !.animation_chains = t.animation_chains,
                !.choreo_groups = t.choreo_groups, !.ok = TRUE]

\* render.rs render on a context with the fields nodes, tree, root,
\* animations, animation_chains, choreo_groups, theme_bindings, themes,
\* front_buffer, back_buffer and backend.  elapsed_ms: the time since the
\* previous render (0.0 on the first one); solved: the result of the
\* solver; write_ok, flush_ok: whether backend.write_diff and backend.flush
\* succeed.  Returns the context, with ok for the result of the call.
render(ctx, elapsed_ms, solved, write_ok, flush_ok) ==
    RenderTicked(ctx,
                 Ticked(ctx, advance_animations(ctx.nodes, ctx.animations,
                                                ctx.animation_chains,
                                                ctx.choreo_groups, elapsed_ms)),
                 solved, write_ok, flush_ok)

\* The context of the current state
Context ==
    [nodes |-> nodes, tree |-> tree, root |-> root, animations |-> animations,
     animation_chains |-> animation_chains, choreo_groups |-> choreo_groups,
     theme_bindings |-> theme_bindings, themes |-> themes,
     front_buffer |-> front_buffer, back_buffer |-> back_buffer,
     backend |-> backend, ok |-> TRUE]

\* tui_render / render.rs render.  A run takes the step when every
\* animation ends it at an elapsed time within MaxElapsed and at an exact
\* interpolation.
RenderFrame(elapsed_ms, solved, write_ok, flush_ok) ==
    \E r \in {render(Context, elapsed_ms, solved, write_ok, flush_ok)} :
        /\ \A k \in 1..Len(r.animations) :
               /\ r.animations[k].elapsed_ms <= MaxElapsed
               /\ ExactAt(r.animations[k], r.animations[k].elapsed_ms)
        /\ nodes' = r.nodes
        /\ tree' = r.tree
        /\ animations' = r.animations
        /\ animation_chains' = r.animation_chains
        /\ choreo_groups' = r.choreo_groups
        /\ front_buffer' = r.front_buffer
        /\ back_buffer' = r.back_buffer
        /\ backend' = r.backend
        /\ UNCHANGED <<next_handle, root, focused, event_buffer, next_anim_handle,
                       next_choreo_group_handle, theme_bindings, themes,
                       next_theme_handle, returned, process>>

\* A render of a tree of nodes without dimensions; backend_ok: the backend
\* wrote the diff.
RenderAfter(elapsed_ms, backend_ok) == RenderFrame(elapsed_ms, Unsized, backend_ok, TRUE)

\* tui_set_scroll
SetScroll(handle, x, y) ==
    /\ nodes' = IF validate_handle(nodes, handle)
                THEN set_scroll(nodes, tree, handle, x, y).nodes
                ELSE nodes
    /\ UNCHANGED <<tree, next_handle, root, focused, event_buffer, animations,
                   next_anim_handle, animation_chains, choreo_groups,
                   next_choreo_group_handle, theme_bindings, themes,
                   next_theme_handle, front_buffer, back_buffer, backend, returned, process>>

\* tui_scroll_by.  A call that panics leaves the lock of the context
\* poisoned, and every call after it fails: a run takes no step past it.
\* The nodes as the panic leaves them are those that scroll_by returns.
ScrollBy(handle, dx, dy, overflow_checks) ==
    /\ ~scroll_by_panics(nodes, handle, dx, dy, overflow_checks)
    /\ nodes' = IF validate_handle(nodes, handle)
                THEN scroll_by(nodes, tree, handle, dx, dy, overflow_checks)
                ELSE nodes
    /\ UNCHANGED <<tree, next_handle, root, focused, event_buffer, animations,
                   next_anim_handle, animation_chains, choreo_groups,
                   next_choreo_group_handle, theme_bindings, themes,
                   next_theme_handle, front_buffer, back_buffer, backend, returned, process>>

\* tui_set_style_border / style.rs set_border with a valid border style
SetStyleBorder(handle, border_style) ==
    /\ nodes' = IF validate_handle(nodes, handle)
                THEN [nodes EXCEPT ![handle].border_style = border_style,
                                   ![handle].style_mask = @ \cup {"border_style"},
                                   ![handle].dirty = TRUE]
                ELSE nodes
    /\ UNCHANGED <<tree, next_handle, root, focused, event_buffer, animations,
                   next_anim_handle, animation_chains, choreo_groups,
                   next_choreo_group_handle, theme_bindings, themes,
                   next_theme_handle, front_buffer, back_buffer, backend, returned, process>>

\* tui_set_style_color / style.rs set_color for prop 0 (fg_color),
\* 1 (bg_color) or 2 (border_color)
SetStyleColor(handle, prop, color) ==
    /\ nodes' = IF validate_handle(nodes, handle)
                THEN [nodes EXCEPT ![handle][prop] = color,
                                   ![handle].style_mask = @ \cup {prop},
                                   ![handle].dirty = TRUE]
                ELSE nodes
    /\ UNCHANGED <<tree, next_handle, root, focused, event_buffer, animations,
                   next_anim_handle, animation_chains, choreo_groups,
                   next_choreo_group_handle, theme_bindings, themes,
                   next_theme_handle, front_buffer, back_buffer, backend, returned, process>>

\* The terminal is resized: backend.size() returns the new size from then on
TerminalResize(width, height) ==
    /\ backend' = [backend EXCEPT !.width = width, !.height = height]
    /\ UNCHANGED <<nodes, tree, next_handle, root, focused, event_buffer, animations,
                   next_anim_handle, animation_chains, choreo_groups,
                   next_choreo_group_handle, theme_bindings, themes,
                   next_theme_handle, front_buffer, back_buffer, returned, process>>

\* A render whose clock has or has not moved since the previous one.
Render(elapsed_positive, backend_ok) ==
    RenderAfter(IF elapsed_positive THEN 1 ELSE 0, backend_ok)

(***************************************************************************)
(* Focus traversal (event.rs, lib.rs)                                      *)
(***************************************************************************)
\* tui_set_focusable
SetFocusable(handle, focusable) ==
    /\ nodes' = IF validate_handle(nodes, handle)
                THEN [nodes EXCEPT ![handle].focusable = focusable]
                ELSE nodes
    /\ UNCHANGED <<themes, next_theme_handle, front_buffer, back_buffer, backend,
                   tree, next_handle, root, focused, event_buffer, animations,
                   next_anim_handle, theme_bindings, returned, process,
                   animation_chains, choreo_groups, next_choreo_group_handle>>

\* A faulty traversal that also descends into invisible nodes.
RECURSIVE CollectIgnoringVisibility(_, _, _)
CollectIgnoringVisibility(ns, stack, fuel) ==
    IF stack = <<>> \/ fuel = 0 THEN <<>>
    ELSE LET handle == Head(stack)
         IN  IF handle \notin DOMAIN ns
             THEN CollectIgnoringVisibility(ns, Tail(stack), fuel - 1)
             ELSE (IF ns[handle].focusable THEN <<handle>> ELSE <<>>)
                  \o CollectIgnoringVisibility(ns, ns[handle].children \o Tail(stack),
                                               fuel - 1)

\* collect_focusable_recursive, with the call stack as an explicit list of
\* the handles still to visit: an invisible node is skipped together with
\* its subtree, a focusable node is listed before its children.  fuel is the
\* number of visits left; a forest never uses it up.
RECURSIVE collect_focusable_recursive(_, _, _)
collect_focusable_recursive(ns, stack, fuel) ==
    IF stack = <<>> \/ fuel = 0 THEN <<>>
    ELSE LET handle == Head(stack)
         IN  IF handle \notin DOMAIN ns \/ ~ns[handle].visible
             THEN collect_focusable_recursive(ns, Tail(stack), fuel - 1)
             ELSE (IF ns[handle].focusable THEN <<handle>> ELSE <<>>)
                  \o collect_focusable_recursive(ns, ns[handle].children \o Tail(stack),
                                                 fuel - 1)

\* collect_focusable_order
collect_focusable_order(ns, rt) ==
    IF rt = None THEN <<>>
    ELSE collect_focusable_recursive(ns, <<rt>>, Cardinality(DOMAIN ns))

\* A faulty step that stays on the last node instead of wrapping.
NextIndexNoWrap(order, old_focus) ==
    LET current_idx == Position(order, old_focus)
    IN  order[Min(current_idx + 1, Len(order))]

\* focus_next, lines 427-433: the node after old_focus, the first one when
\* old_focus is not listed (Position is 1-based and 0 when absent, so it is
\* the code's current_idx already advanced by one).
NextIndex(order, old_focus) ==
    LET current_idx == Position(order, old_focus)
    IN  order[(current_idx % Len(order)) + 1]

\* A faulty step that stays on the first node instead of wrapping.
PrevIndexNoWrap(order, old_focus) ==
    LET current_idx == IF Contains(order, old_focus)
                       THEN Position(order, old_focus) - 1 ELSE 0
    IN  order[IF current_idx = 0 THEN 1 ELSE current_idx]

\* focus_prev, lines 448-459: the node before old_focus, the last one when
\* old_focus is the first or is not listed.
PrevIndex(order, old_focus) ==
    LET current_idx == IF Contains(order, old_focus)
                       THEN Position(order, old_focus) - 1 ELSE 0
        new_idx == IF current_idx = 0 THEN Len(order) - 1 ELSE current_idx - 1
    IN  order[new_idx + 1]

\* focus_next.  Returns [focused, event_buffer].
focus_next(ns, rt, fc, events) ==
    LET focusable_order == collect_focusable_order(ns, rt)
    IN  IF focusable_order = <<>> THEN [focused |-> fc, event_buffer |-> events]
        ELSE LET new_focus == NextIndex(focusable_order, fc)
             IN  [focused |-> new_focus,
                  event_buffer |-> Append(events, FocusChangeEvent(fc, new_focus))]

\* focus_prev.  Returns [focused, event_buffer].
focus_prev(ns, rt, fc, events) ==
    LET focusable_order == collect_focusable_order(ns, rt)
    IN  IF focusable_order = <<>> THEN [focused |-> fc, event_buffer |-> events]
        ELSE LET new_focus == PrevIndex(focusable_order, fc)
             IN  [focused |-> new_focus,
                  event_buffer |-> Append(events, FocusChangeEvent(fc, new_focus))]

\* tui_focus_next.  bound caps the length of the event buffer.
FocusNext(bound) ==
    LET r == focus_next(nodes, root, focused, event_buffer)
    IN  /\ Len(r.event_buffer) <= bound
        /\ focused' = r.focused
        /\ event_buffer' = r.event_buffer
        /\ UNCHANGED <<themes, next_theme_handle, front_buffer, back_buffer, backend,
                   nodes, tree, next_handle, root, animations, next_anim_handle,
                       theme_bindings, returned, process,
                   animation_chains, choreo_groups, next_choreo_group_handle>>

\* tui_focus_prev.  bound caps the length of the event buffer.
FocusPrev(bound) ==
    LET r == focus_prev(nodes, root, focused, event_buffer)
    IN  /\ Len(r.event_buffer) <= bound
        /\ focused' = r.focused
        /\ event_buffer' = r.event_buffer
        /\ UNCHANGED <<themes, next_theme_handle, front_buffer, back_buffer, backend,
                   nodes, tree, next_handle, root, animations, next_anim_handle,
                       theme_bindings, returned, process,
                   animation_chains, choreo_groups, next_choreo_group_handle>>

(***************************************************************************)
(* Widget key handlers (event.rs).  Each returns [consumed, node, events]: *)
(* whether the key was consumed, the node afterwards and the events the    *)
(* handler pushed.                                                         *)
(***************************************************************************)
\* types.rs key codes
BACKSPACE == 256
ENTER == 257
LEFT == 258
RIGHT == 259
UP == 260
DOWN == 261
HOME == 262
END == 263
TAB == 266
BACK_TAB == 267
DELETE == 268
ESCAPE == 270

\* The character of a raw key: "NUL" for '\0', "LF" a control character,
\* "a" a printable one, "m" a combining mark (printable, and one grapheme
\* with the character before it).
IsPrintable(character) == character # "NUL" /\ character # "LF"

\* types.rs TuiEvent constructors (event type, target, data)
TuiEvent(event_type, target, data) ==
    [event_type |-> event_type, target |-> target, data |-> data]

Handled(consumed, node, events) ==
    [consumed |-> consumed, node |-> node, events |-> events]

\* handle_input_key
handle_input_key(n, handle, code, character) ==
    LET content_len == Len(n.content)
        cursor == Min(n.cursor_position, content_len)
        node == [n EXCEPT !.cursor_position = cursor]
        change == <<TuiEvent("Change", handle, <<0>>)>>
    IN
    CASE code = ENTER -> Handled(TRUE, node, <<TuiEvent("Submit", handle, <<>>)>>)
      [] code = BACKSPACE ->
            IF cursor > 0
            THEN Handled(TRUE, [node EXCEPT !.content = RemoveAt(@, cursor),
                                            !.cursor_position = cursor - 1,
                                            !.dirty = TRUE], change)
            ELSE Handled(TRUE, node, <<>>)
      [] code = DELETE ->
            IF cursor < content_len
            THEN Handled(TRUE, [node EXCEPT !.content = RemoveAt(@, cursor + 1),
                                            !.dirty = TRUE], change)
            ELSE Handled(TRUE, node, <<>>)
      [] code = LEFT ->
            IF cursor > 0
            THEN Handled(TRUE, [node EXCEPT !.cursor_position = cursor - 1,
                                            !.dirty = TRUE], <<>>)
            ELSE Handled(TRUE, node, <<>>)
      [] code = RIGHT ->
            IF cursor < content_len
            THEN Handled(TRUE, [node EXCEPT !.cursor_position = cursor + 1,
                                            !.dirty = TRUE], <<>>)
            ELSE Handled(TRUE, node, <<>>)
      [] code = HOME ->
            Handled(TRUE, [node EXCEPT !.cursor_position = 0, !.dirty = TRUE], <<>>)
      [] code = END ->
            Handled(TRUE, [node EXCEPT !.cursor_position = content_len,
                                       !.dirty = TRUE], <<>>)
      [] OTHER ->
            IF IsPrintable(character)
               /\ (node.max_length = 0 \/ content_len < node.max_length)
            THEN Handled(TRUE, [node EXCEPT !.content = InsertAt(@, cursor, character),
                                            !.cursor_position = cursor + 1,
                                            !.dirty = TRUE], change)
            ELSE Handled(FALSE, node, <<>>)

\* A faulty handler that consumes Enter without an event.
SelectSwallowsEnter(n, handle, code) ==
    IF n.options = 0 THEN Handled(FALSE, n, <<>>)
    ELSE Handled(code \in {UP, DOWN, ENTER}, n, <<>>)

\* handle_select_key
handle_select_key(n, handle, code) ==
    LET option_count == n.options
        current == IF n.selected_index = Unselected THEN 0 ELSE n.selected_index
    IN
    IF option_count = 0 THEN Handled(FALSE, n, <<>>)
    ELSE CASE code = UP ->
                IF current > 0
                THEN Handled(TRUE, [n EXCEPT !.selected_index = current - 1,
                                             !.dirty = TRUE],
                             <<TuiEvent("Change", handle, <<current - 1>>)>>)
                ELSE Handled(TRUE, n, <<>>)
           [] code = DOWN ->
                IF current + 1 < option_count
                THEN Handled(TRUE, [n EXCEPT !.selected_index = current + 1,
                                             !.dirty = TRUE],
                             <<TuiEvent("Change", handle, <<current + 1>>)>>)
                ELSE Handled(TRUE, n, <<>>)
           [] code = ENTER ->
                Handled(TRUE, n, <<TuiEvent("Submit", handle, <<>>)>>)
           [] OTHER -> Handled(FALSE, n, <<>>)

\* text_utils.rs split_textarea_lines_owned: the lines between line feeds
RECURSIVE split_textarea_lines(_)
split_textarea_lines(content) ==
    IF content = <<>> THEN << <<>> >>
    ELSE LET rest == split_textarea_lines(Tail(content))
         IN  IF Head(content) = "LF" THEN << <<>> >> \o rest
             ELSE << <<Head(content)>> \o Head(rest) >> \o Tail(rest)

\* join_textarea_lines
RECURSIVE join_textarea_lines(_)
join_textarea_lines(lines) ==
    IF Len(lines) = 1 THEN lines[1]
    ELSE lines[1] \o <<"LF">> \o join_textarea_lines(Tail(lines))

\* A faulty clamp that bounds the row and leaves the column.
ClampRowOnly(lines, row, col) ==
    [row |-> Min(row, Len(lines) - 1), col |-> col]

\* text_utils.rs clamp_textarea_cursor_lines.  Returns [row, col].
clamp_textarea_cursor_lines(lines, row, col) ==
    LET r == Min(row, Len(lines) - 1)
    IN  [row |-> r, col |-> Min(col, Len(lines[r + 1]))]

\* The graphemes of a line after an insertion or a concatenation
\* (UnicodeSegmentation::graphemes): a combining mark "m" that follows a
\* character is part of that character's grapheme, and a grapheme of its own
\* only at the head of the line.
Segment(line) ==
    LET keep == {k \in 1..Len(line) : k = 1 \/ line[k] # "m"}
        Nth(n) == CHOOSE k \in keep : Cardinality({j \in keep : j < k}) = n - 1
    IN  [n \in 1..Cardinality(keep) |-> line[Nth(n)]]

\* handle_textarea_key, lines 248-343: the effect of the key on the lines
\* and on the clamped cursor.  Returns [lines, row, col, emit_change, consumed].
TextAreaEdit(lines, row, col, code, character) ==
    LET line == lines[row + 1]
        line_len == Len(line)
        Edit(ls, r, c, emit) ==
            [lines |-> ls, row |-> r, col |-> c, emit_change |-> emit,
             consumed |-> TRUE]
        Clamped(r) == clamp_textarea_cursor_lines(lines, r, col)
    IN
    CASE code = ENTER ->
            Edit(SubSeq(lines, 1, row) \o <<SubSeq(line, 1, col)>>
                   \o <<SubSeq(line, col + 1, line_len)>>
                   \o SubSeq(lines, row + 2, Len(lines)),
                 row + 1, 0, TRUE)
      [] code = BACKSPACE ->
            IF col > 0
            THEN Edit([lines EXCEPT ![row + 1] = RemoveAt(@, col)], row, col - 1, TRUE)
            ELSE IF row > 0
            THEN Edit([RemoveAt(lines, row + 1) EXCEPT ![row] = Segment(@ \o line)],
                      row - 1, Len(lines[row]), TRUE)
            ELSE Edit(lines, row, col, FALSE)
      [] code = DELETE ->
            IF col < line_len
            THEN Edit([lines EXCEPT ![row + 1] = RemoveAt(@, col + 1)], row, col, TRUE)
            ELSE IF row + 1 < Len(lines)
            THEN Edit([RemoveAt(lines, row + 2)
                           EXCEPT ![row + 1] = Segment(@ \o lines[row + 2])],
                      row, col, TRUE)
            ELSE Edit(lines, row, col, FALSE)
      [] code = LEFT ->
            IF col > 0 THEN Edit(lines, row, col - 1, FALSE)
            ELSE IF row > 0 THEN Edit(lines, row - 1, Len(lines[row]), FALSE)
            ELSE Edit(lines, row, col, FALSE)
      [] code = RIGHT ->
            IF col < line_len THEN Edit(lines, row, col + 1, FALSE)
            ELSE IF row + 1 < Len(lines) THEN Edit(lines, row + 1, 0, FALSE)
            ELSE Edit(lines, row, col, FALSE)
      [] code = UP ->
            IF row > 0
            THEN Edit(lines, Clamped(row - 1).row, Clamped(row - 1).col, FALSE)
            ELSE Edit(lines, row, col, FALSE)
      [] code = DOWN ->
            IF row + 1 < Len(lines)
            THEN Edit(lines, Clamped(row + 1).row, Clamped(row + 1).col, FALSE)
            ELSE Edit(lines, row, col, FALSE)
      [] code = HOME -> Edit(lines, row, 0, FALSE)
      [] code = END -> Edit(lines, row, line_len, FALSE)
      [] OTHER ->
            IF IsPrintable(character)
            THEN Edit([lines EXCEPT ![row + 1] = Segment(InsertAt(@, col, character))],
                      row, col + 1, TRUE)
            ELSE [lines |-> lines, row |-> row, col |-> col, emit_change |-> FALSE,
                  consumed |-> FALSE]

\* handle_textarea_key
handle_textarea_key(n, handle, code, character) ==
    LET lines == split_textarea_lines(n.content)
        at == clamp_textarea_cursor_lines(lines, n.cursor_row, n.cursor_col)
        e == TextAreaEdit(lines, at.row, at.col, code, character)
        after == clamp_textarea_cursor_lines(e.lines, e.row, e.col)
    IN  Handled(e.consumed,
                [n EXCEPT !.content = IF e.emit_change THEN join_textarea_lines(e.lines)
                                      ELSE @,
                          !.cursor_row = after.row,
                          !.cursor_col = after.col,
                          !.dirty = IF e.consumed THEN TRUE ELSE @],
                IF e.emit_change THEN <<TuiEvent("Change", handle, <<0>>)>> ELSE <<>>)

(***************************************************************************)
(* read_input and next_event (event.rs)                                    *)
(***************************************************************************)
\* layout.rs hit_test_recursive.  The computed rectangles are not part of
\* the state: a pointer position is named by the node `at` whose own area it
\* is in (None outside every node), so the bounds of a node contain it
\* exactly when the node is `at` or one of its ancestors.  At most one child
\* contains the position, which makes the back-to-front order of the scan
\* immaterial.
RECURSIVE hit_test_recursive(_, _, _, _)
hit_test_recursive(ns, handle, at, fuel) ==
    IF fuel = 0 \/ handle \notin DOMAIN ns THEN None
    ELSE IF ~ns[handle].visible THEN None
    ELSE IF handle \notin AncestorChain(ns, at, {}) THEN None
    ELSE LET hits == {hit_test_recursive(ns, ns[handle].children[k], at, fuel - 1) :
                         k \in 1..Len(ns[handle].children)} \ {None}
         IN  IF hits = {} THEN handle ELSE CHOOSE hit \in hits : TRUE

\* layout.rs hit_test
hit_test(ns, rt, at) ==
    IF rt = None THEN None
    ELSE hit_test_recursive(ns, rt, at, Cardinality(DOMAIN ns))

\* find_scrollable_ancestor
RECURSIVE find_scrollable_ancestor(_, _, _)
find_scrollable_ancestor(ns, handle, fuel) ==
    IF fuel = 0 \/ handle \notin DOMAIN ns THEN None
    ELSE IF ns[handle].node_type = "ScrollBox" THEN handle
    ELSE IF ns[handle].parent # None
         THEN find_scrollable_ancestor(ns, ns[handle].parent, fuel - 1)
         ELSE None

\* A faulty dispatch that forwards the key also when a widget consumed it.
ForwardAlways(events, consumed, key_event) == Append(events, key_event)

\* read_input, lines 43-75: a key the focused widget consumed is not
\* forwarded (`continue`), any other key is pushed as a Key event
ForwardKey(events, consumed, key_event) ==
    IF consumed THEN events ELSE Append(events, key_event)

\* read_input, lines 24-76: one raw key event.  st is [nodes, focused,
\* event_buffer, count]; a handler's writes to the node stay also when it
\* does not consume the key.
ReadKey(st, rt, code, character) ==
    IF code = TAB
    THEN LET r == focus_next(st.nodes, rt, st.focused, st.event_buffer)
         IN  [st EXCEPT !.focused = r.focused, !.event_buffer = r.event_buffer]
    ELSE IF code = BACK_TAB
    THEN LET r == focus_prev(st.nodes, rt, st.focused, st.event_buffer)
         IN  [st EXCEPT !.focused = r.focused, !.event_buffer = r.event_buffer]
    ELSE
      LET target == st.focused
          live == target # None /\ target \in DOMAIN st.nodes
          focused_type == IF live THEN st.nodes[target].node_type ELSE "None"
          h == CASE focused_type = "Input" ->
                      handle_input_key(st.nodes[target], target, code, character)
                 [] focused_type = "TextArea" ->
                      handle_textarea_key(st.nodes[target], target, code, character)
                 [] focused_type = "Select" ->
                      handle_select_key(st.nodes[target], target, code)
                 [] OTHER -> Handled(FALSE, <<>>, <<>>)
          ns1 == IF focused_type \in {"Input", "TextArea", "Select"}
                 THEN [st.nodes EXCEPT ![target] = h.node] ELSE st.nodes
      IN  [nodes |-> ns1,
           focused |-> st.focused,
           event_buffer |->
               ForwardKey(st.event_buffer \o h.events, h.consumed,
                          TuiEvent("Key", target, <<code>>)),
           count |-> st.count + 1]

\* A faulty test that lets a click move the focus to any node it hits.
ClickOnAnyNode(ns, button, target, old_focus) ==
    button <= 2 /\ target # 0 /\ target \in DOMAIN ns /\ old_focus # target

\* read_input, lines 85-97: a click (buttons 0-2) moves the focus when it
\* hits a focusable node other than the focused one
ClickMovesFocus(ns, button, target, old_focus) ==
    /\ button <= 2 /\ target # 0 /\ target \in DOMAIN ns
    /\ ns[target].focusable
    /\ old_focus # target

\* read_input, lines 77-115: one raw mouse event over the position `at`
ReadMouse(st, rt, at, button) ==
    LET target == hit_test(st.nodes, rt, at)
        old_focus == st.focused
        click == ClickMovesFocus(st.nodes, button, target, old_focus)
        scroll_target == IF button = 3 \/ button = 4
                         THEN find_scrollable_ancestor(st.nodes, target,
                                  Cardinality(DOMAIN st.nodes))
                         ELSE None
    IN  [nodes |-> IF scroll_target # None
                   THEN scroll_by(st.nodes, tree, scroll_target, 0,
                                  IF button = 3 THEN -1 ELSE 1, FALSE)
                   ELSE st.nodes,
         focused |-> IF click THEN target ELSE st.focused,
         event_buffer |->
             Append(IF click
                    THEN Append(st.event_buffer, FocusChangeEvent(old_focus, target))
                    ELSE st.event_buffer,
                    TuiEvent("Mouse", target, <<button>>)),
         count |-> st.count + 1]

\* read_input, lines 22-125: the loop over the raw events of the backend
RECURSIVE ReadLoop(_, _, _)
ReadLoop(st, rt, raw_events) ==
    IF raw_events = <<>> THEN st
    ELSE LET raw == Head(raw_events)
             st1 == CASE raw.type = "Key" -> ReadKey(st, rt, raw.code, raw.character)
                      [] raw.type = "Mouse" -> ReadMouse(st, rt, raw.at, raw.button)
                      [] raw.type = "Resize" ->
                            [st EXCEPT !.event_buffer =
                                           Append(@, TuiEvent("Resize", 0, <<>>)),
                                       !.count = @ + 1]
                      [] OTHER -> st
         IN  ReadLoop(st1, rt, Tail(raw_events))

\* read_input.  Returns [nodes, focused, event_buffer, count].
read_input(ns, rt, fc, events, raw_events) ==
    ReadLoop([nodes |-> ns, focused |-> fc, event_buffer |-> events, count |-> 0],
             rt, raw_events)

\* The raw events of the backend (types.rs TerminalInputEvent); Resize and
\* the terminal's FocusGained and FocusLost carry nothing the model reads.
RawKey(code, character) == [type |-> "Key", code |-> code, character |-> character]
RawMouse(at, button) == [type |-> "Mouse", at |-> at, button |-> button]

\* tui_read_input.  bound caps the length of the event buffer.
ReadInput(raw_events, bound) ==
    LET r == read_input(nodes, root, focused, event_buffer, raw_events)
    IN  /\ Len(r.event_buffer) <= bound
        /\ nodes' = r.nodes
        /\ focused' = r.focused
        /\ event_buffer' = r.event_buffer
        /\ UNCHANGED <<themes, next_theme_handle, front_buffer, back_buffer, backend,
                   tree, next_handle, root, animations, next_anim_handle,
                       theme_bindings, returned, process,
                   animation_chains, choreo_groups, next_choreo_group_handle>>

\* A faulty drain that takes the newest event.
next_event_newest(events) ==
    IF events = <<>> THEN [some |-> FALSE, event_buffer |-> events]
    ELSE [some |-> TRUE, event |-> events[Len(events)],
          event_buffer |-> SubSeq(events, 1, Len(events) - 1)]

\* next_event.  Returns [some, event, event_buffer]; event only with some.
next_event(events) ==
    IF events = <<>> THEN [some |-> FALSE, event_buffer |-> events]
    ELSE [some |-> TRUE, event |-> Head(events), event_buffer |-> Tail(events)]

\* tui_next_event / event.rs next_event
NextEvent ==
    /\ event_buffer' = next_event(event_buffer).event_buffer
    /\ UNCHANGED <<themes, next_theme_handle, front_buffer, back_buffer, backend,
                   nodes, tree, next_handle, root, focused, animations,
                   next_anim_handle, theme_bindings, returned, process,
                   animation_chains, choreo_groups, next_choreo_group_handle>>

(***************************************************************************)
(* Spec: the composition tree over the three kinds the tree tells apart.   *)
(***************************************************************************)
TreeCreate == \E node_type \in TreeKinds : CreateNode(MaxNodes, node_type)
TreeInsert == \E parent \in Handles(MaxNodes), child \in Handles(MaxNodes),
                 index \in Indices(MaxNodes) : InsertChild(parent, child, index)
TreeAppend == \E parent \in Handles(MaxNodes), child \in Handles(MaxNodes) :
                  AppendChild(parent, child)
TreeRemove == \E parent \in Handles(MaxNodes), child \in Handles(MaxNodes) :
                  RemoveChild(parent, child)
TreeDestroy == \E handle \in Handles(MaxNodes) : DestroyNode(handle)
TreeDestroySubtree == \E handle \in Handles(MaxNodes) : DestroySubtree(handle)

Next ==
    \/ TreeCreate
    \/ TreeInsert
    \/ TreeAppend
    \/ TreeRemove
    \/ TreeDestroy
    \/ TreeDestroySubtree

Spec == Init /\ [][Next]_vars

(***************************************************************************)
(* SpecBoxes: the same operations over Box nodes only, one node more.      *)
(***************************************************************************)
BoxCreate == CreateNode(MaxBoxes, "Box")
BoxInsert == \E parent \in Handles(MaxBoxes), child \in Handles(MaxBoxes),
                index \in Indices(MaxBoxes) : InsertChild(parent, child, index)
BoxAppend == \E parent \in Handles(MaxBoxes), child \in Handles(MaxBoxes) :
                 AppendChild(parent, child)
BoxRemove == \E parent \in Handles(MaxBoxes), child \in Handles(MaxBoxes) :
                 RemoveChild(parent, child)
BoxDestroy == \E handle \in Handles(MaxBoxes) : DestroyNode(handle)
BoxDestroySubtree == \E handle \in Handles(MaxBoxes) : DestroySubtree(handle)

NextBoxes ==
    \/ BoxCreate
    \/ BoxInsert
    \/ BoxAppend
    \/ BoxRemove
    \/ BoxDestroy
    \/ BoxDestroySubtree

SpecBoxes == Init /\ [][NextBoxes]_vars

(***************************************************************************)
(* SpecDirty: dirty flags across tree edits, a setter and the renderer.    *)
(***************************************************************************)
DirtyCreate == CreateNode(MaxNodes, "Box")
DirtyAppend == \E parent \in Handles(MaxNodes), child \in Handles(MaxNodes) :
                   AppendChild(parent, child)
DirtyRemove == \E parent \in Handles(MaxNodes), child \in Handles(MaxNodes) :
                   RemoveChild(parent, child)
DirtySetRoot == \E handle \in Handles(MaxNodes) : SetRoot(handle)
DirtySetVisible == \E handle \in Handles(MaxNodes), visible \in BOOLEAN :
                       SetVisible(handle, visible)
DirtyMarkDirty == \E handle \in Handles(MaxNodes) : MarkDirty(handle)
DirtyRender == \E elapsed_positive \in BOOLEAN, backend_ok \in BOOLEAN :
                   Render(elapsed_positive, backend_ok)

NextDirty ==
    \/ DirtyCreate
    \/ DirtyAppend
    \/ DirtyRemove
    \/ DirtySetRoot
    \/ DirtySetVisible
    \/ DirtyMarkDirty
    \/ DirtyRender

SpecDirty == Init /\ [][NextDirty]_vars

(***************************************************************************)
(* SpecDestroy: destruction with everything that may refer to a node:      *)
(* root, focus, buffered events, animations and theme bindings.            *)
(***************************************************************************)
DestroyCreate == CreateNode(MaxNodes, "Box")
DestroyAppend == \E parent \in Handles(MaxNodes), child \in Handles(MaxNodes) :
                     AppendChild(parent, child)
DestroySetRoot == \E handle \in Handles(MaxNodes) : SetRoot(handle)
DestroyFocus == \E handle \in Handles(MaxNodes) : Focus(handle)
DestroyStartSpinner == \E handle \in Handles(MaxNodes) : StartSpinner(handle, MaxAnims)
DestroyApplyTheme == \E handle \in Handles(MaxNodes) :
                         ApplyTheme(DARK_THEME_HANDLE, handle)
DestroyOne == \E handle \in Handles(MaxNodes) : DestroyNode(handle)
DestroyAll == \E handle \in Handles(MaxNodes) : DestroySubtree(handle)

NextDestroy ==
    \/ DestroyCreate
    \/ DestroyAppend
    \/ DestroySetRoot
    \/ DestroyFocus
    \/ ReadInputKey
    \/ NextEvent
    \/ DestroyStartSpinner
    \/ DestroyApplyTheme
    \/ DestroyOne
    \/ DestroyAll

SpecDestroy == Init /\ [][NextDestroy]_vars

(***************************************************************************)
(* Widget setters (lib.rs)                                                 *)
(***************************************************************************)
\* tui_input_set_max_len
InputSetMaxLen(handle, max_len) ==
    /\ nodes' = IF validate_handle(nodes, handle) /\ nodes[handle].node_type = "Input"
                THEN [nodes EXCEPT ![handle].max_length = max_len]
                ELSE nodes
    /\ UNCHANGED <<themes, next_theme_handle, front_buffer, back_buffer, backend,
                   tree, next_handle, root, focused, event_buffer, animations,
                   next_anim_handle, theme_bindings, returned, process,
                   animation_chains, choreo_groups, next_choreo_group_handle>>

\* tui_select_add_option.  bound caps the number of options.
SelectAddOption(handle, bound) ==
    /\ nodes' = IF validate_handle(nodes, handle) /\ nodes[handle].node_type = "Select"
                THEN [nodes EXCEPT ![handle].options = @ + 1, ![handle].dirty = TRUE]
                ELSE nodes
    /\ \A h \in DOMAIN nodes' : nodes'[h].options <= bound
    /\ UNCHANGED <<themes, next_theme_handle, front_buffer, back_buffer, backend,
                   tree, next_handle, root, focused, event_buffer, animations,
                   next_anim_handle, theme_bindings, returned, process,
                   animation_chains, choreo_groups, next_choreo_group_handle>>

(***************************************************************************)
(* SpecFocus: Box and Input nodes under a root, visibility, and the focus  *)
(* set by the host and moved by traversal.                                 *)
(***************************************************************************)
FocusKinds == {"Box", "Input"}

NextFocus ==
    \/ \E node_type \in FocusKinds : CreateNode(MaxFocusNodes, node_type)
    \/ \E parent \in Handles(MaxFocusNodes), child \in Handles(MaxFocusNodes) :
           AppendChild(parent, child)
    \/ \E handle \in Handles(MaxFocusNodes) : SetRoot(handle)
    \/ \E handle \in Handles(MaxFocusNodes), visible \in BOOLEAN :
           SetVisible(handle, visible)
    \/ \E handle \in Handles(MaxFocusNodes) :
           Len(event_buffer) < MaxFocusEvents /\ Focus(handle)
    \/ FocusNext(MaxFocusEvents)
    \/ FocusPrev(MaxFocusEvents)
    \/ NextEvent

SpecFocus == Init /\ [][NextFocus]_vars

(***************************************************************************)
(* SpecInput: Box and Input nodes, the focus, and the event buffer filled  *)
(* by read_input (keys, Tab, pointer, resize) and by the focus operations  *)
(* and drained by next_event.                                              *)
(***************************************************************************)
\* What the backend may deliver to one read_input: one raw event, or two.
InputRaw ==
    {RawKey(TAB, "NUL"), RawKey(ESCAPE, "NUL"), [type |-> "Resize"],
     [type |-> "FocusGained"]}
        \cup {RawMouse(at, button) : at \in Handles(MaxInputNodes), button \in {0, 3}}

InputBatches == {<<first>> \o more : first \in InputRaw,
                                    more \in {<<>>} \cup {<<raw>> : raw \in InputRaw}}

NextInput ==
    \/ \E node_type \in FocusKinds : CreateNode(MaxInputNodes, node_type)
    \/ \E parent \in Handles(MaxInputNodes), child \in Handles(MaxInputNodes) :
           AppendChild(parent, child)
    \/ \E handle \in Handles(MaxInputNodes) : SetRoot(handle)
    \/ \E handle \in Handles(MaxInputNodes), visible \in BOOLEAN :
           SetVisible(handle, visible)
    \/ \E handle \in Handles(MaxInputNodes) :
           Len(event_buffer) < MaxInputEvents /\ Focus(handle)
    \/ FocusNext(MaxInputEvents)
    \/ \E raw_events \in InputBatches : ReadInput(raw_events, MaxInputEvents)
    \/ NextEvent

SpecInput == Init /\ [][NextInput]_vars

(***************************************************************************)
(* SpecKeys: one widget of any kind that handles keys, or a Box, the focus *)
(* on it or nowhere, and read_input delivering one key at a time.          *)
(***************************************************************************)
KeyKinds == {"Box", "Input", "Select", "TextArea"}

\* The keys of the backend: every code a handler tells apart, Escape for
\* the rest, a printable character and a control character.
KeyRaw ==
    {RawKey(code, "NUL") : code \in {BACKSPACE, ENTER, LEFT, RIGHT, UP, DOWN, HOME,
                                     END, TAB, BACK_TAB, DELETE, ESCAPE}}
        \cup {RawKey(97, "a"), RawKey(10, "LF")}

NextKeys ==
    \/ \E node_type \in KeyKinds : CreateNode(MaxKeyNodes, node_type)
    \/ \E handle \in Handles(MaxKeyNodes) : SetRoot(handle)
    \/ \E handle \in Handles(MaxKeyNodes) :
           Len(event_buffer) < MaxKeyEvents /\ Focus(handle)
    \/ \E handle \in Handles(MaxKeyNodes), max_len \in 0..MaxContent :
           InputSetMaxLen(handle, max_len)
    \/ \E handle \in Handles(MaxKeyNodes) : SelectAddOption(handle, MaxOptions)
    \/ \E raw \in KeyRaw :
           /\ ReadInput(<<raw>>, MaxKeyEvents)
           /\ \A h \in DOMAIN nodes' : Len(nodes'[h].content) <= MaxContent
    \/ NextEvent

SpecKeys == Init /\ [][NextKeys]_vars

(***************************************************************************)
(* SpecAnim: property animations, spinners, chains and choreography        *)
(* membership on a Box node, advanced by renders.                          *)
(***************************************************************************)
\* End values: 0.0 and 2.0, the second outside the range of an opacity.
AnimTargets == {0, 2 * One}

AnimDurations == {0, 2}

\* The time between two renders, in ms.
TickSlices == {1, 2}

\* start_at_ms of a choreography member
StartOffsets == {0, 1}

NextAnim ==
    \/ CreateNode(MaxAnimNodes, "Box")
    \/ \E handle \in Handles(MaxAnimNodes), property \in AnimProps,
          target_bits \in AnimTargets, duration_ms \in AnimDurations :
          Animate(handle, property, target_bits, duration_ms, MaxAnimHandles)
    \/ \E handle \in Handles(MaxAnimNodes) : StartSpinner(handle, MaxAnimHandles)
    \/ \E handle \in Handles(MaxAnimNodes), duration_ms \in AnimDurations :
          StartProgress(handle, duration_ms, MaxAnimHandles)
    \/ \E after_anim \in Handles(MaxAnimHandles), next_anim \in Handles(MaxAnimHandles) :
          ChainAnimation(after_anim, next_anim)
    \/ CreateChoreoGroup(MaxGroups)
    \/ \E group_id \in Handles(MaxGroups), anim_id \in Handles(MaxAnimHandles),
          start_at_ms \in StartOffsets : ChoreoAdd(group_id, anim_id, start_at_ms)
    \/ \E elapsed_ms \in TickSlices : RenderAfter(elapsed_ms, TRUE)

SpecAnim == Init /\ [][NextAnim]_vars

(***************************************************************************)
(* SpecTick: one-shot and looping animations, spinners and choreography    *)
(* timelines on a Box node, advanced by renders.                           *)
(***************************************************************************)
NextTick ==
    \/ CreateNode(MaxAnimNodes, "Box")
    \/ \E handle \in Handles(MaxAnimNodes), property \in AnimProps,
          target_bits \in AnimTargets, duration_ms \in AnimDurations :
          Animate(handle, property, target_bits, duration_ms, MaxAnimHandles)
    \/ \E handle \in Handles(MaxAnimNodes) : StartSpinner(handle, MaxAnimHandles)
    \/ \E handle \in Handles(MaxAnimNodes), duration_ms \in AnimDurations :
          StartPulse(handle, duration_ms, MaxAnimHandles)
    \/ CreateChoreoGroup(MaxGroups)
    \/ \E group_id \in Handles(MaxGroups), anim_id \in Handles(MaxAnimHandles),
          start_at_ms \in StartOffsets : ChoreoAdd(group_id, anim_id, start_at_ms)
    \/ \E group_id \in Handles(MaxGroups) : ChoreoStart(group_id)
    \/ \E elapsed_ms \in TickSlices : RenderAfter(elapsed_ms, TRUE)

SpecTick == Init /\ [][NextTick]_vars

(***************************************************************************)
(* SpecChain: chained property animations and spinners on a Box node, with *)
(* cancellation and replacement, advanced by renders.                      *)
(***************************************************************************)
\* End value: 0.0
ChainTargets == {0}

NextChain ==
    \/ CreateNode(MaxAnimNodes, "Box")
    \/ \E handle \in Handles(MaxAnimNodes), property \in AnimProps,
          target_bits \in ChainTargets, duration_ms \in AnimDurations :
          Animate(handle, property, target_bits, duration_ms, MaxChainHandles)
    \/ \E handle \in Handles(MaxAnimNodes) : StartSpinner(handle, MaxChainHandles)
    \/ \E after_anim \in Handles(MaxChainHandles), next_anim \in Handles(MaxChainHandles) :
          ChainAnimation(after_anim, next_anim)
    \/ \E anim_id \in Handles(MaxChainHandles) : CancelAnimation(anim_id)
    \/ \E elapsed_ms \in TickSlices : RenderAfter(elapsed_ms, TRUE)

SpecChain == Init /\ [][NextChain]_vars

(***************************************************************************)
(* SpecChoreo: choreography timelines over chained property animations on  *)
(* a Box node, with group cancellation, advanced by renders.               *)
(***************************************************************************)
\* start_at_ms of a member: at the start of the timeline, or late enough
\* for a tick to end before it
ChoreoOffsets == {0, 2}

NextChoreo ==
    \/ CreateNode(MaxAnimNodes, "Box")
    \/ \E handle \in Handles(MaxAnimNodes), property \in AnimProps,
          target_bits \in ChainTargets, duration_ms \in AnimDurations :
          Animate(handle, property, target_bits, duration_ms, MaxAnimHandles)
    \/ \E after_anim \in Handles(MaxAnimHandles), next_anim \in Handles(MaxAnimHandles) :
          ChainAnimation(after_anim, next_anim)
    \/ CreateChoreoGroup(MaxGroups)
    \/ \E group_id \in Handles(MaxGroups), anim_id \in Handles(MaxAnimHandles),
          start_at_ms \in ChoreoOffsets : ChoreoAdd(group_id, anim_id, start_at_ms)
    \/ \E group_id \in Handles(MaxGroups) : ChoreoStart(group_id)
    \/ \E group_id \in Handles(MaxGroups) : ChoreoCancel(group_id)
    \/ \E elapsed_ms \in TickSlices : RenderAfter(elapsed_ms, TRUE)

SpecChoreo == Init /\ [][NextChoreo]_vars

(***************************************************************************)
(* SpecRender: a Box node with a background colour, the layout that the    *)
(* solver gives it, a PositionX animation, a terminal that changes its     *)
(* width and a backend that may fail to write or to flush.                 *)
(***************************************************************************)
MaxRenderNodes == 1
MaxRenderAnims == 1

\* The size the terminal takes after a resize: the initial width or less
RenderWidths == {InitialScreen.width - 1, InitialScreen.width}

\* 0x01_0000FF: an RGB colour
RenderColors == {16777471}

\* The layouts the solver computes for a node
RenderLayouts == {[x |-> 0, y |-> 0, w |-> 2, h |-> 1], [x |-> 1, y |-> 0, w |-> 1, h |-> 1]}

\* The results of the solver
RenderSolved == [1..MaxRenderNodes -> RenderLayouts]

\* The time between two renders, in ms
RenderSlices == {0, 1}

RenderCreate == CreateNode(MaxRenderNodes, "Box")
RenderSetRoot == \E handle \in Handles(MaxRenderNodes) : SetRoot(handle)
RenderSetColor == \E handle \in Handles(MaxRenderNodes), color \in RenderColors :
                      SetStyleColor(handle, "bg_color", color)
RenderAnimate == \E handle \in Handles(MaxRenderNodes) :
                     Animate(handle, "PositionX", One, 1, MaxRenderAnims)
RenderSetVisible == \E handle \in Handles(MaxRenderNodes), visible \in BOOLEAN :
                        SetVisible(handle, visible)
RenderResize == \E width \in RenderWidths : TerminalResize(width, InitialScreen.height)
RenderStep == \E elapsed_ms \in RenderSlices, solved \in RenderSolved,
                 write_ok \in BOOLEAN, flush_ok \in BOOLEAN :
                  RenderFrame(elapsed_ms, solved, write_ok, flush_ok)

NextRender ==
    \/ RenderCreate
    \/ RenderSetRoot
    \/ RenderSetColor
    \/ RenderAnimate
    \/ RenderSetVisible
    \/ RenderResize
    \/ RenderStep

SpecRender == Init /\ [][NextRender]_vars

(***************************************************************************)
(* SpecScroll: a ScrollBox and a Box that may come to be its child, with   *)
(* the layouts that the solver gives them, a border that comes and goes,   *)
(* scroll requests below, within and beyond the range, and renders.        *)
(***************************************************************************)
MaxScrollNodes == 2

\* The handles that get a border: the ScrollBox
MaxScrollBoxes == 1

\* The layouts the solver computes for a node
ScrollLayouts == {[x |-> 0, y |-> 0, w |-> 1, h |-> 1], [x |-> 0, y |-> 0, w |-> 2, h |-> 1]}

\* The results of the solver
ScrollSolved == [1..MaxScrollNodes -> ScrollLayouts]

\* The positions and the deltas that the host requests
ScrollRequests == {-1, 1, I32_MAX}

\* The pairs of them that a run requests
ScrollPairs == {<<-1, 1>>, <<1, -1>>, <<I32_MAX, I32_MAX>>}

ScrollBorders == {"None", "Single"}

ScrollCreate == CreateNode(MaxScrollNodes, IF next_handle = 1 THEN "ScrollBox" ELSE "Box")
ScrollAppend == \E parent \in Handles(MaxScrollNodes), child \in Handles(MaxScrollNodes) :
                    AppendChild(parent, child)
ScrollRemove == \E parent \in Handles(MaxScrollNodes), child \in Handles(MaxScrollNodes) :
                    RemoveChild(parent, child)
ScrollSetRoot == \E handle \in Handles(MaxScrollNodes) : SetRoot(handle)
ScrollSetBorder == \E handle \in Handles(MaxScrollBoxes), border_style \in ScrollBorders :
                       SetStyleBorder(handle, border_style)
ScrollSet == \E handle \in Handles(MaxScrollNodes), to \in ScrollPairs :
                 SetScroll(handle, to[1], to[2])
ScrollMove == \E handle \in Handles(MaxScrollNodes), by \in ScrollPairs,
                 overflow_checks \in BOOLEAN :
                  ScrollBy(handle, by[1], by[2], overflow_checks)
ScrollRender == \E solved \in ScrollSolved : RenderFrame(0, solved, TRUE, TRUE)

NextScroll ==
    \/ ScrollCreate
    \/ ScrollAppend
    \/ ScrollRemove
    \/ ScrollSetRoot
    \/ ScrollSetBorder
    \/ ScrollSet
    \/ ScrollMove
    \/ ScrollRender

SpecScroll == Init /\ [][NextScroll]_vars

(***************************************************************************)
(* SpecTheme: two Box nodes, one of them the child of the other or not,    *)
(* colours set on the nodes, the built-in themes and a theme of the host   *)
(* that sets none, one or two colours, bound to the nodes and unbound.     *)
(***************************************************************************)
MaxThemeNodes == 2

\* The highest theme handle: one theme of the host
MaxThemeHandle == 3

\* The theme handles whose colours a run sets: no theme, and the themes of
\* the host
HostThemes == {None} \cup (FIRST_USER_THEME_HANDLE..MaxThemeHandle)

\* The colour properties that a run sets
ThemeProps == {"fg_color", "bg_color"}

\* 0x01_00FF00: an RGB colour
ThemeColors == {16842496}

ThemeCreateNode == CreateNode(MaxThemeNodes, "Box")
ThemeAppend == \E parent \in Handles(MaxThemeNodes), child \in Handles(MaxThemeNodes) :
                   AppendChild(parent, child)
ThemeCreate == CreateTheme(MaxThemeHandle)
ThemeDestroy == \E theme_handle \in Handles(MaxThemeHandle) : DestroyTheme(theme_handle)
ThemeSetColor == \E theme_handle \in HostThemes, prop \in ThemeProps,
                    color \in ThemeColors : SetThemeColor(theme_handle, prop, color)
ThemeApply == \E theme_handle \in Handles(MaxThemeHandle),
                 node_handle \in Handles(MaxThemeNodes) :
                  ApplyTheme(theme_handle, node_handle)
ThemeClear == \E node_handle \in Handles(MaxThemeNodes) : ClearTheme(node_handle)
ThemeSetStyle == \E handle \in Handles(MaxThemeNodes), prop \in ThemeProps,
                    color \in ThemeColors : SetStyleColor(handle, prop, color)

NextTheme ==
    \/ ThemeCreateNode
    \/ ThemeAppend
    \/ ThemeCreate
    \/ ThemeDestroy
    \/ ThemeSetColor
    \/ ThemeApply
    \/ ThemeClear
    \/ ThemeSetStyle

SpecTheme == Init /\ [][NextTheme]_vars




(***************************************************************************)
(* Vocabulary of the properties: read off the state, not off the code.     *)
(***************************************************************************)
Live == DOMAIN nodes

NoDuplicates(s) == \A j, k \in 1..Len(s) : s[j] = s[k] => j = k

\* The node reached from h by following k parent links (None once it ends).
RECURSIVE Up(_, _, _)
Up(ns, h, k) ==
    IF k = 0 \/ h \notin DOMAIN ns THEN h
    ELSE Up(ns, ns[h].parent, k - 1)

\* The proper ancestors of h.
ProperAncestors(ns, h) ==
    {Up(ns, h, k) : k \in 1..Cardinality(DOMAIN ns)} \ {None}

\* The descendants of h: the nodes that have h among their proper ancestors.
Descendants(ns, h) == {d \in DOMAIN ns : h \in ProperAncestors(ns, d)}

(***************************************************************************)
(* C1: in every state reached by create_node, append_child, insert_child,  *)
(* remove_child, destroy_node and destroy_subtree the parent fields and    *)
(* the child lists describe the same forest: h is in the child list of p   *)
(* exactly when h's parent is p, no child list holds a handle twice, every *)
(* listed child and every parent is a live node, and no node is its own    *)
(* ancestor.                                                               *)
(***************************************************************************)
C1_Forest ==
    \A h \in Live :
        /\ \A p \in Live : Contains(nodes[p].children, h) <=> nodes[h].parent = p
        /\ nodes[h].parent # None => nodes[h].parent \in Live
        /\ NoDuplicates(nodes[h].children)
        /\ SeqToSet(nodes[h].children) \subseteq Live
        /\ h \notin ProperAncestors(nodes, h)

\* A node has a parent and two children, the younger child listed first:
\* a forest three levels deep built with an insert ahead of a sibling.
C1_Witness ==
    \E p, h \in Live :
        /\ nodes[p].children = <<h>>
        /\ Len(nodes[h].children) = 2
        /\ nodes[h].children[1] > nodes[h].children[2]

(***************************************************************************)
(* C2: every handle create_node returned is at least 1 and greater than    *)
(* every handle it returned before, so no handle is returned twice, also   *)
(* after its node was destroyed; the handle it returns next is greater     *)
(* than all of them; and 0 is never a key of the node table.               *)
(***************************************************************************)
C2_Handles ==
    /\ \A k \in 1..Len(returned) : returned[k] >= 1
    /\ \A j, k \in 1..Len(returned) : j < k => returned[j] < returned[k]
    /\ \A k \in 1..Len(returned) : returned[k] < next_handle
    /\ Live \subseteq SeqToSet(returned)
    /\ 0 \notin Live

\* create_node returned a handle after an earlier node had been destroyed.
C2_Witness ==
    /\ Len(returned) >= 3
    /\ returned[1] \notin Live
    /\ returned[Len(returned)] \in Live

(***************************************************************************)
(* C3: in every reachable state a dirty node has only dirty ancestors.     *)
(***************************************************************************)
C3_DirtyAncestors ==
    \A h \in Live :
        nodes[h].dirty => \A a \in ProperAncestors(nodes, h) : nodes[a].dirty

(***************************************************************************)
(* C4: insert_child(parent, child, index) and append_child(parent, child)  *)
(* return an error and leave every node's parent and child list unchanged  *)
(* whenever parent = child, child is an ancestor of parent, or parent is a *)
(* ScrollBox that would then hold more than one child, also when child     *)
(* currently belongs to a different parent.                                *)
(***************************************************************************)
\* The parent field and the child list of every node.
Links(ns) == [h \in DOMAIN ns |-> <<ns[h].parent, ns[h].children>>]

Forbidden(parent, child) ==
    \/ parent = child
    \/ child \in ProperAncestors(nodes, parent)
    \/ /\ nodes[parent].node_type = "ScrollBox"
       /\ \E k \in 1..Len(nodes[parent].children) : nodes[parent].children[k] # child

C4_Rejected ==
    \A parent, child \in Live :
        Forbidden(parent, child) =>
            /\ \A index \in Indices(MaxNodes) :
                   LET r == tui_insert_child(nodes, tree, parent, child, index)
                   IN  ~r.ok /\ Links(r.nodes) = Links(nodes)
            /\ LET r == tui_append_child(nodes, tree, parent, child)
               IN  ~r.ok /\ Links(r.nodes) = Links(nodes)

\* A ScrollBox holds one child, which holds another node: moving the
\* grandchild up is the constraint case with a child of a different parent,
\* and putting the ScrollBox under the grandchild is the ancestor case.
C4_Witness ==
    \E sb, c, g \in Live :
        /\ nodes[sb].node_type = "ScrollBox"
        /\ nodes[sb].children = <<c>>
        /\ nodes[c].children = <<g>>
        /\ ~tui_insert_child(nodes, tree, sb, g, 0).ok
        /\ ~tui_append_child(nodes, tree, g, sb).ok

(***************************************************************************)
(* C5: in every reachable state a ScrollBox has at most one child.         *)
(***************************************************************************)
C5_ScrollBoxSingleChild ==
    \A h \in Live : nodes[h].node_type = "ScrollBox" => Len(nodes[h].children) <= 1

\* A ScrollBox holds a child while another node has a child of its own that
\* could be moved in, and re-appending the existing child succeeds.
C5_Witness ==
    \E sb, c, q, d \in Live :
        /\ nodes[sb].node_type = "ScrollBox"
        /\ nodes[sb].children = <<c>>
        /\ q # sb /\ nodes[q].children = <<d>>
        /\ tui_append_child(nodes, tree, sb, c).ok
        /\ ~tui_append_child(nodes, tree, sb, d).ok

(***************************************************************************)
(* C6: a Text, Input, Select or TextArea node never has a child: append_   *)
(* child and insert_child with a parent of a leaf kind are rejected and    *)
(* the leaf's child list stays empty.                                      *)
(***************************************************************************)
LeafKinds == {"Text", "Input", "Select", "TextArea"}

C6_LeavesChildless ==
    \A h \in Live : nodes[h].node_type \in LeafKinds => nodes[h].children = <<>>

(***************************************************************************)
(* C7: from every state append_child(parent, child) has the same effect on *)
(* the tree as insert_child(parent, child, index) with an index beyond the *)
(* end: the same result and the same parents and child lists; after it     *)
(* succeeds child is the last element of parent's child list, also when    *)
(* child was already a child of parent at an earlier position; and         *)
(* repeating the same append changes nothing further.                      *)
(***************************************************************************)
C7_AppendIsInsertBeyondEnd ==
    \A parent, child \in Handles(MaxBoxes) :
        LET a == tui_append_child(nodes, tree, parent, child)
            again == tui_append_child(a.nodes, a.tree, parent, child)
        IN  /\ \A index \in Indices(MaxBoxes) :
                   (parent \in Live /\ index > Len(nodes[parent].children)) =>
                       LET i == tui_insert_child(nodes, tree, parent, child, index)
                       IN  a.ok = i.ok /\ Links(a.nodes) = Links(i.nodes)
            /\ a.ok => /\ a.nodes[parent].children # <<>>
                       /\ a.nodes[parent].children[Len(a.nodes[parent].children)] = child
            /\ a.ok => again.ok /\ Links(again.nodes) = Links(a.nodes)

(***************************************************************************)
(* C8: after a successful insert_child(parent, child, index), child occurs *)
(* exactly once in parent's child list, at position min(index, n) where n  *)
(* is the length of that list with child taken out; the other children     *)
(* keep their relative order; child's parent is parent; and child is no    *)
(* longer in the child list of its previous parent.                        *)
(***************************************************************************)
Without(s, x) == SelectSeq(s, LAMBDA h : h # x)

C8_InsertPostcondition ==
    \A parent, child \in Handles(MaxBoxes), index \in Indices(MaxBoxes) :
        LET r == tui_insert_child(nodes, tree, parent, child, index)
        IN  r.ok =>
            LET others == Without(nodes[parent].children, child)
                n == Len(others)
                after == r.nodes[parent].children
                previous == nodes[child].parent
            IN  /\ Len(after) = n + 1
                /\ after[(IF index <= n THEN index ELSE n) + 1] = child
                /\ Cardinality({k \in 1..Len(after) : after[k] = child}) = 1
                /\ Without(after, child) = others
                /\ r.nodes[child].parent = parent
                /\ (previous # None /\ previous # parent) =>
                       ~Contains(r.nodes[previous].children, child)

\* A parent holds two children, one of which holds a third node: that node
\* can be put between the two, leaving its previous parent, and the first
\* child can be moved behind the second.
C8_Witness ==
    \E parent, a, b, c \in Live :
        /\ nodes[parent].children = <<a, b>>
        /\ nodes[a].children = <<c>>
        /\ LET r == tui_insert_child(nodes, tree, parent, c, 1)
           IN  r.ok /\ r.nodes[parent].children = <<a, c, b>>
                    /\ r.nodes[a].children = <<>>
        /\ LET r == tui_insert_child(nodes, tree, parent, a, 2)
           IN  r.ok /\ r.nodes[parent].children = <<b, a>>

(***************************************************************************)
(* C9: after destroy_subtree(h) succeeds, h and all its descendants are    *)
(* gone from the node table and nothing refers to them any more: no child  *)
(* list of a remaining node, no animation target, no theme-binding key, no *)
(* buffered event's target, neither root nor focus.  The nodes outside the *)
(* subtree survive, and the buffered events that target other nodes are    *)
(* kept in their original order.                                           *)
(***************************************************************************)
C9_DestroySubtree ==
    \A h \in Live :
        LET r == tui_destroy_subtree(nodes, tree, animations, theme_bindings,
                                     event_buffer, root, focused, h)
            sub == {h} \cup Descendants(nodes, h)
        IN  r.ok =>
            /\ DOMAIN r.nodes = Live \ sub
            /\ \A x \in DOMAIN r.nodes : SeqToSet(r.nodes[x].children) \cap sub = {}
            /\ \A k \in 1..Len(r.animations) : r.animations[k].target \notin sub
            /\ DOMAIN r.theme_bindings \cap sub = {}
            /\ \A k \in 1..Len(r.event_buffer) : r.event_buffer[k].target \notin sub
            /\ r.root \notin sub
            /\ r.focused \notin sub
            /\ r.event_buffer = SelectSeq(event_buffer, LAMBDA e : e.target \notin sub)

\* A node has a parent and a child; the child has the focus and a buffered
\* key event behind a focus-change event; destroying the node's subtree
\* succeeds and keeps the parent and the other event.
C9_Witness ==
    \E o, h, d \in Live :
        /\ nodes[o].children = <<h>>
        /\ nodes[h].children = <<d>>
        /\ focused = d
        /\ event_buffer = <<FocusChangeEvent(None, d), KeyEvent(d)>>
        /\ LET r == tui_destroy_subtree(nodes, tree, animations, theme_bindings,
                                        event_buffer, root, focused, h)
           IN  r.ok /\ DOMAIN r.nodes = {o}
                    /\ r.event_buffer = <<FocusChangeEvent(None, d)>>

(***************************************************************************)
(* C10: destroy_node(h) removes only h.  h leaves its parent's child list; *)
(* each former child of h stays live with its parent unset and its own     *)
(* child list intact; every other node keeps its parent and child list;    *)
(* and the event buffer is left exactly as it was, events that target h    *)
(* included.                                                               *)
(***************************************************************************)
C10_DestroyNode ==
    \A h \in Live :
        LET r == tui_destroy_node(nodes, tree, animations, theme_bindings,
                                  event_buffer, root, focused, h)
            p == nodes[h].parent
            kids == SeqToSet(nodes[h].children)
        IN  /\ r.ok
            /\ DOMAIN r.nodes = Live \ {h}
            /\ p # None => r.nodes[p].children = Without(nodes[p].children, h)
            /\ \A c \in kids : /\ c \in DOMAIN r.nodes
                                /\ r.nodes[c].parent = None
                                /\ r.nodes[c].children = nodes[c].children
            /\ \A x \in Live \ ({h, p} \cup kids) : Links(r.nodes)[x] = Links(nodes)[x]
            /\ r.event_buffer = event_buffer

\* A node with a parent and a child has the focus and a buffered key event;
\* destroying it keeps that event and leaves the child a parentless node.
C10_Witness ==
    \E p, h, c \in Live :
        /\ nodes[p].children = <<h>>
        /\ nodes[h].children = <<c>>
        /\ focused = h
        /\ \E k \in 1..Len(event_buffer) : event_buffer[k] = KeyEvent(h)
        /\ LET r == tui_destroy_node(nodes, tree, animations, theme_bindings,
                                     event_buffer, root, focused, h)
           IN  r.ok /\ DOMAIN r.nodes = {p, c} /\ r.nodes[c].parent = None
                    /\ r.nodes[p].children = <<>>
                    /\ \E k \in 1..Len(r.event_buffer) : r.event_buffer[k] = KeyEvent(h)

(***************************************************************************)
(* C11: whenever the focus is set it names a live node, and whenever the   *)
(* root is set it names a live node.  Destroying the focused or the root   *)
(* node, directly or as part of a destroyed subtree, unsets the reference. *)
(***************************************************************************)
C11_RefsLive ==
    /\ root = None \/ root \in Live
    /\ focused = None \/ focused \in Live
    /\ \A h \in Live :
          LET one == tui_destroy_node(nodes, tree, animations, theme_bindings,
                         event_buffer, root, focused, h)
              all == tui_destroy_subtree(nodes, tree, animations, theme_bindings,
                         event_buffer, root, focused, h)
          IN  /\ one.ok /\ root = h => one.root = None
              /\ one.ok /\ focused = h => one.focused = None
              /\ all.ok /\ root \in Descendants(nodes, h) \cup {h} => all.root = None
              /\ all.ok /\ focused \in Descendants(nodes, h) \cup {h}
                    => all.focused = None

\* The root has a child holding the focus: destroying the child alone
\* unsets the focus and keeps the root, destroying the root's subtree
\* unsets both.
C11_Witness ==
    /\ root \in Live /\ focused \in Live /\ focused # root
    /\ nodes[focused].parent = root
    /\ LET one == tui_destroy_node(nodes, tree, animations, theme_bindings,
                       event_buffer, root, focused, focused)
           all == tui_destroy_subtree(nodes, tree, animations, theme_bindings,
                       event_buffer, root, focused, root)
       IN  /\ one.ok /\ one.focused = None /\ one.root = root
           /\ all.ok /\ all.focused = None /\ all.root = None


(***************************************************************************)
(* C12: the event buffer is first-in first-out across read_input, the      *)
(* focus operations and next_event.  next_event reports an event exactly   *)
(* when the buffer is not empty, returns the oldest one and removes that   *)
(* one only; every other step leaves what is buffered in place and adds    *)
(* its events behind it; and the events of one read_input are buffered in  *)
(* the order of its raw events.                                            *)
(***************************************************************************)
IsPrefix(s, t) == Len(s) <= Len(t) /\ SubSeq(t, 1, Len(s)) = s

C12_DrainsOldest ==
    LET r == next_event(event_buffer)
    IN  /\ r.some <=> event_buffer # <<>>
        /\ r.some => /\ r.event = event_buffer[1]
                      /\ event_buffer = <<r.event>> \o r.event_buffer
        /\ ~r.some => r.event_buffer = event_buffer

C12_BatchInOrder ==
    \A batch \in InputBatches :
        Len(batch) = 2 =>
            LET both == read_input(nodes, root, focused, event_buffer, batch)
                one == read_input(nodes, root, focused, event_buffer, <<batch[1]>>)
                two == read_input(one.nodes, root, one.focused, one.event_buffer,
                                  <<batch[2]>>)
            IN  /\ IsPrefix(event_buffer, one.event_buffer)
                /\ IsPrefix(one.event_buffer, both.event_buffer)
                /\ both.event_buffer = two.event_buffer

C12_Fifo ==
    /\ [](C12_DrainsOldest /\ C12_BatchInOrder)
    /\ [][\/ IsPrefix(event_buffer, event_buffer')
           \/ (event_buffer # <<>> /\ event_buffer' = Tail(event_buffer))]_vars

\* Two events are buffered, a FocusChange ahead of a Key: next_event
\* returns the FocusChange and leaves the Key.
C12_Witness ==
    /\ Len(event_buffer) = 2
    /\ event_buffer[1].event_type = "FocusChange"
    /\ event_buffer[2].event_type = "Key"
    /\ next_event(event_buffer).event = event_buffer[1]
    /\ next_event(event_buffer).event_buffer = <<event_buffer[2]>>


(***************************************************************************)
(* C13: for each raw key event read_input processes exactly one of three   *)
(* things happens.  Tab and BackTab run focus_next and focus_prev and no   *)
(* Key event is enqueued.  A key that the handler of the focused Input,    *)
(* TextArea or Select consumes enqueues no Key event either.  Every other  *)
(* key enqueues exactly one event, a Key event whose target is the focused *)
(* handle, 0 when nothing is focused.                                      *)
(***************************************************************************)
C13_KeyDispatch ==
    \A raw \in KeyRaw :
        LET r == read_input(nodes, root, focused, event_buffer, <<raw>>)
            fresh == SubSeq(r.event_buffer, Len(event_buffer) + 1, Len(r.event_buffer))
            keys == SelectSeq(fresh, LAMBDA e : e.event_type = "Key")
            traversal == raw.code \in {TAB, BACK_TAB}
            kind == IF focused \in Live THEN nodes[focused].node_type ELSE "None"
            consumed ==
                /\ ~traversal
                /\ CASE kind = "Input" ->
                          handle_input_key(nodes[focused], focused, raw.code,
                                           raw.character).consumed
                     [] kind = "TextArea" ->
                          handle_textarea_key(nodes[focused], focused, raw.code,
                                              raw.character).consumed
                     [] kind = "Select" ->
                          handle_select_key(nodes[focused], focused, raw.code).consumed
                     [] OTHER -> FALSE
            moved == IF raw.code = TAB
                     THEN focus_next(nodes, root, focused, event_buffer)
                     ELSE focus_prev(nodes, root, focused, event_buffer)
        IN  /\ IsPrefix(event_buffer, r.event_buffer)
            /\ traversal => /\ keys = <<>>
                            /\ r.focused = moved.focused
                            /\ r.event_buffer = moved.event_buffer
                            /\ r.nodes = nodes
            /\ consumed => keys = <<>> /\ r.focused = focused
            /\ ~traversal /\ ~consumed =>
                  /\ fresh = <<TuiEvent("Key", focused, <<raw.code>>)>>
                  /\ r.focused = focused

\* The root is a focused Input that is full: Tab enqueues a FocusChange and
\* no Key event, Backspace is consumed and enqueues a Change, and the
\* printable character is passed on as a Key event for the Input.
C13_Witness ==
    /\ focused \in Live /\ root = focused /\ event_buffer = <<>>
    /\ nodes[focused].node_type = "Input"
    /\ nodes[focused].max_length = 1 /\ nodes[focused].content = <<"a">>
    /\ nodes[focused].cursor_position = 1
    /\ read_input(nodes, root, focused, event_buffer, <<RawKey(TAB, "NUL")>>).event_buffer
          = <<FocusChangeEvent(focused, focused)>>
    /\ read_input(nodes, root, focused, event_buffer,
                  <<RawKey(BACKSPACE, "NUL")>>).event_buffer
          = <<TuiEvent("Change", focused, <<0>>)>>
    /\ read_input(nodes, root, focused, event_buffer, <<RawKey(97, "a")>>).event_buffer
          = <<TuiEvent("Key", focused, <<97>>)>>


(***************************************************************************)
(* C14: focus_next moves the focus to the successor of the current focus   *)
(* in the depth-first pre-order sequence of the nodes under root that are  *)
(* visible and focusable: to the first of them when no focus is set, and   *)
(* from the last of them back to the first.  A node counts as visible when *)
(* it and all its ancestors up to root have the visible flag set.  Neither *)
(* focus_next nor focus_prev ever selects a node outside that sequence,    *)
(* and both leave the focus alone when the sequence is empty.              *)
(***************************************************************************)
\* The nodes below the handles of stack, parents before children and
\* children in list order.
RECURSIVE PreOrder(_, _, _)
PreOrder(ns, stack, fuel) ==
    IF stack = <<>> \/ fuel = 0 THEN <<>>
    ELSE <<Head(stack)>> \o PreOrder(ns, ns[Head(stack)].children \o Tail(stack), fuel - 1)

\* h is shown: it is root or below root, and it and its ancestors are visible.
Shown(h) ==
    /\ root \in AncestorChain(nodes, h, {})
    /\ \A a \in AncestorChain(nodes, h, {}) :
          a = root \/ a \notin AncestorChain(nodes, root, {}) => nodes[a].visible

\* The traversal sequence of the state.
Ring ==
    IF root = None THEN <<>>
    ELSE SelectSeq(PreOrder(nodes, <<root>>, Cardinality(Live)),
                   LAMBDA h : Shown(h) /\ nodes[h].focusable)

C14_FocusNextSuccessor ==
    LET next == focus_next(nodes, root, focused, event_buffer)
        prev == focus_prev(nodes, root, focused, event_buffer)
    IN  /\ Ring = <<>> => next.focused = focused /\ prev.focused = focused
        /\ Ring # <<>> =>
              /\ Contains(Ring, next.focused) /\ Contains(Ring, prev.focused)
              /\ focused = None => next.focused = Ring[1]
              /\ \A i \in 1..Len(Ring) :
                    focused = Ring[i] => next.focused = Ring[(i % Len(Ring)) + 1]

\* The sequence holds two nodes and the focus is on the last one, so that
\* focus_next wraps to the first; a third node under root is focusable but
\* hidden and is passed over.
C14_Witness ==
    /\ Len(Ring) = 2 /\ focused = Ring[2]
    /\ \E h \in Live : /\ root \in AncestorChain(nodes, h, {})
                        /\ nodes[h].focusable /\ ~nodes[h].visible
    /\ focus_next(nodes, root, focused, event_buffer).focused = Ring[1]


(***************************************************************************)
(* C15, as stated: with root set and k >= 1 visible focusable nodes under  *)
(* it, k applications of focus_next in a row leave the focus equal to the  *)
(* focus held before the first of them.                                    *)
(***************************************************************************)
\* The focus after n applications of focus_next, starting from focus fc.
RECURSIVE FocusAfterNext(_, _)
FocusAfterNext(fc, n) ==
    IF n = 0 THEN fc
    ELSE FocusAfterNext(focus_next(nodes, root, fc, <<>>).focused, n - 1)

C15_ReturnsAfterK ==
    root # None /\ Len(Ring) >= 1 => FocusAfterNext(focused, Len(Ring)) = focused

(***************************************************************************)
(* C15, amended: with root set and k >= 1 visible focusable nodes under    *)
(* it, k applications of focus_next in a row leave the focus equal to the  *)
(* focus held before the first of them, provided that focus was on one of  *)
(* those k nodes.  From an unset focus, or from a focus on a node outside  *)
(* the traversal sequence, the first application moves to the first of the *)
(* k nodes and the k-th ends on the last of them.                          *)
(***************************************************************************)
C15_ReturnsAfterKFromRing ==
    /\ root # None /\ Len(Ring) >= 1 /\ Contains(Ring, focused)
          => FocusAfterNext(focused, Len(Ring)) = focused
    /\ root # None /\ Len(Ring) >= 1 /\ ~Contains(Ring, focused)
          => FocusAfterNext(focused, Len(Ring)) = Ring[Len(Ring)]

\* Three nodes are in the sequence and the focus is on the second: three
\* applications pass the third and the first and come back to it, fewer
\* do not.
C15_Witness ==
    /\ Len(Ring) = 3 /\ focused = Ring[2]
    /\ FocusAfterNext(focused, 1) = Ring[3]
    /\ FocusAfterNext(focused, 2) = Ring[1]
    /\ FocusAfterNext(focused, 3) = focused


(***************************************************************************)
(* C16, as stated: from every state with at least one visible focusable    *)
(* node under root, focus_next followed by focus_prev, and focus_prev      *)
(* followed by focus_next, restore the focus held before the pair.         *)
(***************************************************************************)
NextThenPrev(fc) ==
    focus_prev(nodes, root, focus_next(nodes, root, fc, <<>>).focused, <<>>).focused

PrevThenNext(fc) ==
    focus_next(nodes, root, focus_prev(nodes, root, fc, <<>>).focused, <<>>).focused

C16_PrevInvertsNext ==
    Len(Ring) >= 1 => NextThenPrev(focused) = focused /\ PrevThenNext(focused) = focused

(***************************************************************************)
(* C16, amended: from every state with at least one visible focusable node *)
(* under root in which the focus is on one of these nodes, focus_next      *)
(* followed by focus_prev, and focus_prev followed by focus_next, restore  *)
(* the focus held before the pair.  From an unset focus, or from a focus   *)
(* on a node outside the traversal sequence, focus_next followed by        *)
(* focus_prev ends on the last node of the sequence and focus_prev         *)
(* followed by focus_next on the first.                                    *)
(***************************************************************************)
C16_PrevInvertsNextOnRing ==
    /\ Len(Ring) >= 1 /\ Contains(Ring, focused)
          => NextThenPrev(focused) = focused /\ PrevThenNext(focused) = focused
    /\ Len(Ring) >= 1 /\ ~Contains(Ring, focused)
          => NextThenPrev(focused) = Ring[Len(Ring)] /\ PrevThenNext(focused) = Ring[1]

\* Three nodes are in the sequence and the focus is on the first: focus_prev
\* wraps to the third and focus_next wraps back, focus_next moves to the
\* second and focus_prev moves back.
C16_Witness ==
    /\ Len(Ring) = 3 /\ focused = Ring[1]
    /\ focus_prev(nodes, root, focused, <<>>).focused = Ring[3]
    /\ focus_next(nodes, root, focused, <<>>).focused = Ring[2]
    /\ NextThenPrev(focused) = focused /\ PrevThenNext(focused) = focused


(***************************************************************************)
(* C17: a mouse event with button 0, 1 or 2 sets the focus to the node it  *)
(* hits and enqueues FocusChange(old, new) ahead of the Mouse event        *)
(* exactly when that node is focusable and is not the focused one.  In     *)
(* every other case, a wheel button and a hit on nothing included, the     *)
(* focus stays and no FocusChange is enqueued.  In all cases exactly one   *)
(* Mouse event is enqueued for the raw event, and it names the hit node.   *)
(***************************************************************************)
C17_MouseFocus ==
    \A at \in Handles(MaxInputNodes), button \in 0..4 :
        LET r == read_input(nodes, root, focused, event_buffer, <<RawMouse(at, button)>>)
            fresh == SubSeq(r.event_buffer, Len(event_buffer) + 1, Len(r.event_buffer))
            hit == hit_test(nodes, root, at)
            mouse == TuiEvent("Mouse", hit, <<button>>)
            moves == /\ button <= 2 /\ hit \in Live
                     /\ nodes[hit].focusable /\ hit # focused
        IN  /\ IsPrefix(event_buffer, r.event_buffer)
            /\ hit # None => hit \in Live /\ Shown(hit)
            /\ moves => r.focused = hit /\ fresh = <<FocusChangeEvent(focused, hit), mouse>>
            /\ ~moves => r.focused = focused /\ fresh = <<mouse>>

\* The focus is on one visible Input under root and the pointer is over
\* another: a click moves the focus there and announces it ahead of the
\* Mouse event, a click on the focused Input and a wheel event over the
\* other one enqueue the Mouse event alone.
C17_Witness ==
    \E at \in Live :
        /\ focused \in Live /\ at # focused
        /\ hit_test(nodes, root, at) = at /\ hit_test(nodes, root, focused) = focused
        /\ nodes[at].focusable /\ nodes[focused].focusable
        /\ read_input(nodes, root, focused, <<>>, <<RawMouse(at, 0)>>)
              = [nodes |-> nodes, focused |-> at, count |-> 1,
                 event_buffer |-> <<FocusChangeEvent(focused, at),
                                    TuiEvent("Mouse", at, <<0>>)>>]
        /\ read_input(nodes, root, focused, <<>>, <<RawMouse(focused, 0)>>).event_buffer
              = <<TuiEvent("Mouse", focused, <<0>>)>>
        /\ read_input(nodes, root, focused, <<>>, <<RawMouse(at, 3)>>).event_buffer
              = <<TuiEvent("Mouse", at, <<3>>)>>

\* The non-spinner animations of the registry on a (node, property) pair.
PropertyAnims(anims, target, property) ==
    {k \in 1..Len(anims) : /\ anims[k].target = target
                           /\ anims[k].property = property
                           /\ ~anims[k].spinner}

\* The value a linear animation shows at its elapsed time: the end value
\* once the duration has passed, else the point between start and end.
ValueNow(a) ==
    IF a.elapsed_ms >= a.duration_ms THEN a.end_bits
    ELSE a.start_bits + ((a.end_bits - a.start_bits) * a.elapsed_ms) \div a.duration_ms

\* C18: in every reachable state at most one non-spinner animation targets a
\* (node, property) pair; start_animation on a pair that has one removes it
\* and starts the new animation from the value the removed one shows at its
\* elapsed time, and on a pair that has none it starts from the node's
\* current value of the property.
C18_OnePerProperty ==
    /\ \A target \in DOMAIN nodes, property \in AnimProps :
           Cardinality(PropertyAnims(animations, target, property)) <= 1
    /\ \A target \in DOMAIN nodes, property \in AnimProps,
          target_bits \in AnimTargets, duration_ms \in AnimDurations :
           LET r == start_animation(nodes, animations, animation_chains,
                                    next_anim_handle, target, property, target_bits,
                                    duration_ms)
               old == PropertyAnims(animations, target, property)
               new == PropertyAnims(r.animations, target, property)
           IN  /\ r.ok
               /\ Cardinality(new) = 1
               /\ \A k \in new :
                      /\ r.animations[k].id = next_anim_handle
                      /\ r.animations[k].end_bits = target_bits
                      /\ \A j \in old :
                             /\ animations[j].id \notin AnimIds(r.animations)
                             /\ r.animations[k].start_bits = ValueNow(animations[j])
                      /\ old = {} =>
                             r.animations[k].start_bits
                                 = read_property(nodes[target], property)

\* An animation is in flight on a pair, shows a value that differs from the
\* node's stored one, and shares its node with a spinner.
C18_Witness ==
    /\ Len(animations) = 2
    /\ \E k \in 1..Len(animations), j \in 1..Len(animations) :
           /\ ~animations[k].spinner
           /\ animations[k].elapsed_ms > 0
           /\ animations[k].elapsed_ms < animations[k].duration_ms
           /\ ValueNow(animations[k]) # animations[k].start_bits
           /\ ValueNow(animations[k])
                  # read_property(nodes[animations[k].target], animations[k].property)
           /\ animations[j].spinner
           /\ animations[j].target = animations[k].target
           /\ animations[j].property = animations[k].property

\* The animations that are members of a choreography group.
GroupMembers(groups) ==
    UNION {{groups[g].members[k].anim_id : k \in 1..Len(groups[g].members)}
              : g \in DOMAIN groups}

\* C19: when start_animation replaces an animation on the same (node,
\* property), the handle of the replaced animation is afterwards neither in
\* the registry, nor the key of a chain entry, nor a member of a
\* choreography group.  start_animation does not touch the groups, so the
\* groups after the call are the groups before it.
C19_ReplacedHandleGone ==
    \A target \in DOMAIN nodes, property \in AnimProps,
       target_bits \in AnimTargets, duration_ms \in AnimDurations :
        LET r == start_animation(nodes, animations, animation_chains,
                                 next_anim_handle, target, property, target_bits,
                                 duration_ms)
        IN  \A k \in PropertyAnims(animations, target, property) :
                /\ animations[k].id \notin AnimIds(r.animations)
                /\ animations[k].id \notin DOMAIN r.animation_chains
                /\ animations[k].id \notin GroupMembers(choreo_groups)

\* The slices that the running choreography timelines credit to an
\* animation whose start offset they reach in a tick of elapsed_ms: the part
\* of the tick that lies after the offset.
StartSlices(a, elapsed_ms) ==
    UNION {{(choreo_groups[g].elapsed_ms + elapsed_ms)
                - Max(choreo_groups[g].elapsed_ms, choreo_groups[g].members[k].start_at_ms)
              : k \in {j \in 1..Len(choreo_groups[g].members) :
                         /\ choreo_groups[g].members[j].anim_id = a.id
                         /\ ~choreo_groups[g].members[j].started
                         /\ choreo_groups[g].elapsed_ms + elapsed_ms
                                >= choreo_groups[g].members[j].start_at_ms}}
              : g \in {x \in DOMAIN choreo_groups : choreo_groups[x].running}}

\* The time a tick of elapsed_ms adds to an animation that it advances.
Credited(a, elapsed_ms) ==
    IF StartSlices(a, elapsed_ms) = {} THEN elapsed_ms
    ELSE CHOOSE e \in StartSlices(a, elapsed_ms) :
             \A x \in StartSlices(a, elapsed_ms) : x <= e

\* A tick of elapsed_ms finds the animation non-pending, non-looping and
\* non-spinner, and its elapsed time reaches its duration in the tick.  The
\* pending flag is the one the tick sees when it advances the animation,
\* after the timelines have started their members.
Due(a, elapsed_ms) ==
    /\ ~a.pending \/ StartSlices(a, elapsed_ms) # {}
    /\ ~a.looping
    /\ ~a.spinner
    /\ a.elapsed_ms + Credited(a, elapsed_ms) >= a.duration_ms

\* What the node keeps of a value written to a property: an opacity is
\* held within [0.0, 1.0], a position as written.
Held(property, bits) ==
    IF property = "Opacity" THEN (IF bits < 0 THEN 0 ELSE IF bits > One THEN One ELSE bits)
    ELSE bits

\* A tick of elapsed_ms removes exactly the due animations, never a looping
\* one or a spinner, and leaves the property of each removed animation at
\* its end value: the end value itself when exact, else the end value as
\* the node holds it.
TickRemovesDue(elapsed_ms, exact) ==
    LET r == advance_animations(nodes, animations, animation_chains, choreo_groups,
                                elapsed_ms)
    IN  \A k \in 1..Len(animations) :
            LET a == animations[k]
            IN  /\ (a.id \notin AnimIds(r.animations)) <=> Due(a, elapsed_ms)
                /\ (a.looping \/ a.spinner) => a.id \in AnimIds(r.animations)
                /\ Due(a, elapsed_ms) =>
                       read_property(r.nodes[a.target], a.property)
                           = (IF exact THEN a.end_bits ELSE Held(a.property, a.end_bits))

\* C20 as stated: a tick removes an animation from the registry exactly when
\* it is non-pending, non-looping and non-spinner and its elapsed time
\* reached its duration in that tick, and the target property then holds
\* exactly the end value; looping and spinner animations are never removed
\* by a tick.
C20_TickRemovesCompleted ==
    \A elapsed_ms \in TickSlices : TickRemovesDue(elapsed_ms, TRUE)

\* C20, amended: as above for every tick of positive elapsed time, with the
\* target property holding the end value as write_property stores it (an
\* opacity end value outside [0.0, 1.0] is held clamped to that range, every
\* other end value exactly); a tick of zero elapsed time changes nothing.
C20_TickRemovesCompletedHeld ==
    /\ \A elapsed_ms \in TickSlices : TickRemovesDue(elapsed_ms, FALSE)
    /\ advance_animations(nodes, animations, animation_chains, choreo_groups, 0)
           = [nodes |-> nodes, animations |-> animations,
              animation_chains |-> animation_chains, choreo_groups |-> choreo_groups]

\* A pending member of a running timeline is started by a tick, completes in
\* it with an opacity end value above 1.0 and is removed, next to a spinner
\* that stays.
C20_Witness ==
    \E elapsed_ms \in TickSlices, k \in 1..Len(animations), j \in 1..Len(animations) :
        /\ animations[k].pending
        /\ Due(animations[k], elapsed_ms)
        /\ animations[k].property = "Opacity"
        /\ animations[k].end_bits > One
        /\ animations[j].spinner
        /\ animations[k].id
               \notin AnimIds(advance_animations(nodes, animations, animation_chains,
                                                 choreo_groups, elapsed_ms).animations)

\* The animation of a registry that carries an id.
ById(anims, id) == anims[CHOOSE k \in 1..Len(anims) : anims[k].id = id]

\* The animations that the chain map names as predecessors of an animation.
Predecessors(chains, next) == {c \in DOMAIN chains : chains[c] = next}

\* The animations that are members of a running choreography group.
RunningMembers(groups) ==
    GroupMembers([g \in {x \in DOMAIN groups : groups[x].running} |-> groups[g]])

\* A tick of elapsed_ms treats the chain entry after -> next, whose
\* animations are both in the registry with next pending, as follows.  When
\* after is not removed, next is as it was (pending, not advanced), its
\* property is as it was, and the entry is kept.  When after completes as a
\* one-shot, the entry is removed, next is no longer pending, and the tick
\* that follows advances next or completes it.
TickKeepsChain(after, next, elapsed_ms) ==
    LET r == advance_animations(nodes, animations, animation_chains, choreo_groups,
                                elapsed_ms)
        n == ById(animations, next)
    IN  IF ~Due(ById(animations, after), elapsed_ms)
        THEN /\ next \in AnimIds(r.animations)
             /\ ById(r.animations, next) = n
             /\ after \in DOMAIN r.animation_chains
             /\ r.animation_chains[after] = next
             /\ ~n.spinner => read_property(r.nodes[n.target], n.property)
                                 = read_property(nodes[n.target], n.property)
        ELSE /\ after \notin DOMAIN r.animation_chains
             /\ next # after =>
                    /\ next \in AnimIds(r.animations)
                    /\ ~ById(r.animations, next).pending
                    /\ \A later_ms \in TickSlices :
                           LET r2 == advance_animations(r.nodes, r.animations,
                                                        r.animation_chains,
                                                        r.choreo_groups, later_ms)
                           IN  \/ n.spinner
                               \/ next \notin AnimIds(r2.animations)
                               \/ ById(r2.animations, next).elapsed_ms > 0

\* chain_animation leaves next pending with elapsed 0 under the entry
\* after -> next.
ChainSuspends ==
    \A after \in AnimIds(animations), next \in AnimIds(animations) :
        LET r == chain_animation(animations, animation_chains, after, next)
        IN  /\ r.ok
            /\ ById(r.animations, next).pending
            /\ ById(r.animations, next).elapsed_ms = 0
            /\ r.animation_chains[after] = next

\* The chain entries after -> next with both animations in the registry
\* and next pending.
PendingChains ==
    {c \in DOMAIN animation_chains :
        /\ c \in AnimIds(animations)
        /\ animation_chains[c] \in AnimIds(animations)
        /\ ById(animations, animation_chains[c]).pending}

\* C21 as stated: after chain(after, next), next is pending with elapsed 0,
\* and no tick advances it or writes its property while after is still
\* running; in the tick in which after completes as a one-shot, the pending
\* flag of next is cleared and the chain entry for after is removed, so that
\* next advances on the ticks that follow.
C21_ChainHoldsSuccessor ==
    /\ ChainSuspends
    /\ \A after \in PendingChains, elapsed_ms \in TickSlices :
           TickKeepsChain(after, animation_chains[after], elapsed_ms)

\* C21, amended: the same, for a successor that no other chain entry names
\* and that is not a member of a running choreography group; another
\* predecessor that completes, or a timeline that reaches the offset of
\* next, starts next while after is still running.
C21_ChainHoldsSoleSuccessor ==
    /\ ChainSuspends
    /\ \A after \in PendingChains, elapsed_ms \in TickSlices :
           (/\ Predecessors(animation_chains, animation_chains[after]) = {after}
            /\ animation_chains[after] \notin RunningMembers(choreo_groups))
           => TickKeepsChain(after, animation_chains[after], elapsed_ms)

\* A pending successor with one predecessor, outside every running
\* timeline, whose predecessor completes in a tick of some slice and keeps
\* running in a tick of another, next to a running group.
C21_Witness ==
    \E after \in PendingChains :
        /\ animation_chains[after] # after
        /\ Predecessors(animation_chains, animation_chains[after]) = {after}
        /\ animation_chains[after] \notin RunningMembers(choreo_groups)
        /\ \E g \in DOMAIN choreo_groups : choreo_groups[g].running
        /\ \E elapsed_ms \in TickSlices : Due(ById(animations, after), elapsed_ms)
        /\ \E elapsed_ms \in TickSlices : ~Due(ById(animations, after), elapsed_ms)

\* A pending animation that no chain entry names as successor and that no
\* running choreography group holds: nothing is left that starts it.
Stranded(anims, chains, groups, id) ==
    /\ id \in AnimIds(anims)
    /\ ById(anims, id).pending
    /\ Predecessors(chains, id) = {}
    /\ id \notin RunningMembers(groups)

\* A tick of elapsed_ms on a registry keeps the animation next as it is in
\* the current state: in the registry, pending, not advanced.
TickKeepsPending(anims, chains, groups, next, elapsed_ms) ==
    LET r == advance_animations(nodes, anims, chains, groups, elapsed_ms)
    IN  /\ next \in AnimIds(r.animations)
        /\ ById(r.animations, next) = ById(animations, next)
        /\ ById(r.animations, next).pending

\* cancel(after) discards the entry after -> next and keeps next pending in
\* the registry, and the tick that follows neither starts nor removes next.
CancelStrands(after, next) ==
    LET c == cancel_animation(animations, animation_chains, choreo_groups, after)
    IN  /\ c.ok
        /\ after \notin AnimIds(c.animations)
        /\ after \notin DOMAIN c.animation_chains
        /\ next \in AnimIds(c.animations)
        /\ ById(c.animations, next) = ById(animations, next)
        /\ \A elapsed_ms \in TickSlices :
               TickKeepsPending(c.animations, c.animation_chains, c.choreo_groups,
                                next, elapsed_ms)

\* The chain entries whose predecessor is the animation that start_animation
\* replaces when it is called for the predecessor's target and property.
Replaceable ==
    {c \in PendingChains :
        LET a == ById(animations, c)
            idx == ConflictIndex(animations, a.target, a.property)
        IN  idx # 0 /\ animations[idx].id = c}

\* start_animation on the target and property of after replaces after,
\* discards the entry after -> next and keeps next pending in the registry,
\* and the tick that follows neither starts nor removes next.
ReplaceStrands(after, next) ==
    \A target_bits \in ChainTargets, duration_ms \in AnimDurations :
        LET a == ById(animations, after)
            r == start_animation(nodes, animations, animation_chains,
                                 next_anim_handle, a.target, a.property, target_bits,
                                 duration_ms)
        IN  /\ r.ok
            /\ after \notin AnimIds(r.animations)
            /\ after \notin DOMAIN r.animation_chains
            /\ next \in AnimIds(r.animations)
            /\ ById(r.animations, next) = ById(animations, next)
            /\ \A elapsed_ms \in TickSlices :
                   TickKeepsPending(r.animations, r.animation_chains, choreo_groups,
                                    next, elapsed_ms)

\* A tick leaves every stranded animation stranded and as it is, so that no
\* number of ticks starts or removes it.
StrandedStays ==
    \A id \in AnimIds(animations), elapsed_ms \in TickSlices :
        Stranded(animations, animation_chains, choreo_groups, id) =>
            LET r == advance_animations(nodes, animations, animation_chains,
                                        choreo_groups, elapsed_ms)
            IN  /\ TickKeepsPending(animations, animation_chains, choreo_groups, id,
                                    elapsed_ms)
                /\ Stranded(r.animations, r.animation_chains, r.choreo_groups, id)

\* C22 as stated: when the predecessor of a chain is cancelled or replaced,
\* its chain entry is discarded and the successor stays in the registry with
\* its pending flag set, and the ticks that follow neither start nor remove
\* it.
C22_CancelStrandsSuccessor ==
    /\ \A after \in PendingChains :
           animation_chains[after] # after =>
               CancelStrands(after, animation_chains[after])
    /\ \A after \in Replaceable :
           animation_chains[after] # after =>
               ReplaceStrands(after, animation_chains[after])
    /\ StrandedStays

\* C22, amended: the same, for a successor that no other chain entry names
\* and that is not a member of a running choreography group; a second
\* predecessor that completes, or a timeline that reaches the offset of the
\* successor, starts it after its first predecessor was cancelled.
C22_CancelStrandsSoleSuccessor ==
    /\ \A after \in PendingChains :
           (/\ animation_chains[after] # after
            /\ Predecessors(animation_chains, animation_chains[after]) = {after}
            /\ animation_chains[after] \notin RunningMembers(choreo_groups))
           => CancelStrands(after, animation_chains[after])
    /\ \A after \in Replaceable :
           (/\ animation_chains[after] # after
            /\ Predecessors(animation_chains, animation_chains[after]) = {after}
            /\ animation_chains[after] \notin RunningMembers(choreo_groups))
           => ReplaceStrands(after, animation_chains[after])
    /\ StrandedStays

\* A stranded successor next to a one-shot animation that a tick completes
\* and to a chain entry whose predecessor can be cancelled or replaced.
C22_Witness ==
    /\ \E id \in AnimIds(animations) :
           /\ Stranded(animations, animation_chains, choreo_groups, id)
           /\ \E k \in 1..Len(animations), elapsed_ms \in TickSlices :
                  animations[k].id # id /\ Due(animations[k], elapsed_ms)
    /\ \E after \in Replaceable :
           /\ animation_chains[after] # after
           /\ Predecessors(animation_chains, animation_chains[after]) = {after}

\* The members of a group whose animation is in the registry.
LiveMembers(group) ==
    {k \in 1..Len(group.members) : group.members[k].anim_id \in AnimIds(animations)}

\* A running group holds the animation as a member that it has not started:
\* the tick in which the group reaches the member's offset gives the
\* animation only the part of the tick that follows the offset.
ReleasedByGroup(groups, anim_id) ==
    \E group_id \in DOMAIN groups :
        /\ groups[group_id].running
        /\ \E k \in LiveMembers(groups[group_id]) :
               /\ groups[group_id].members[k].anim_id = anim_id
               /\ ~groups[group_id].members[k].started

\* start(group) on a group that is not running sets it running at elapsed 0
\* and clears the pending flag of its members with offset 0; a member with a
\* later offset is pending afterwards when pending_after, and is as it was
\* before the call otherwise.
StartReleasesZero(group_id, pending_after) ==
    LET group == choreo_groups[group_id]
        s == choreography_start(animations, choreo_groups, group_id)
    IN  /\ s.ok
        /\ s.choreo_groups[group_id].running
        /\ s.choreo_groups[group_id].elapsed_ms = 0
        /\ \A k \in LiveMembers(group) :
               LET id == group.members[k].anim_id
               IN  IF group.members[k].start_at_ms = 0
                   THEN ~ById(s.animations, id).pending
                   ELSE IF pending_after
                   THEN ById(s.animations, id).pending
                   ELSE ById(s.animations, id) = ById(animations, id)

\* A tick of elapsed_ms treats member k of a running group, not yet started
\* and with its animation in the registry, as follows.  When the clock of
\* the group stays below the offset of the member, the animation is as it
\* was: pending, not advanced.  When the clock reaches the offset, the
\* animation is no longer pending and has advanced by the part of the tick
\* that lies after the offset, or has completed with it.
TimelineHolds(group_id, k, elapsed_ms) ==
    LET group == choreo_groups[group_id]
        member == group.members[k]
        a == ById(animations, member.anim_id)
        r == advance_animations(nodes, animations, animation_chains, choreo_groups,
                                elapsed_ms)
        slice == (group.elapsed_ms + elapsed_ms)
                     - Max(group.elapsed_ms, member.start_at_ms)
    IN  IF group.elapsed_ms + elapsed_ms < member.start_at_ms
        THEN /\ a.pending
             /\ a.id \in AnimIds(r.animations)
             /\ ById(r.animations, a.id) = a
        ELSE /\ slice >= 0 /\ slice <= elapsed_ms
             /\ IF ~a.spinner /\ ~a.looping /\ a.elapsed_ms + slice >= a.duration_ms
                THEN a.id \notin AnimIds(r.animations)
                ELSE /\ a.id \in AnimIds(r.animations)
                     /\ ~ById(r.animations, a.id).pending
                     /\ ~a.spinner =>
                            ById(r.animations, a.id).elapsed_ms = a.elapsed_ms + slice

\* The members of a running group that have not started and whose animation
\* is in the registry.
Waiting(group_id) ==
    {k \in LiveMembers(choreo_groups[group_id]) :
        /\ choreo_groups[group_id].running
        /\ ~choreo_groups[group_id].members[k].started}

\* The clock of a running group is below the offset of each member that has
\* not started.
ClockBelowWaiting ==
    \A group_id \in DOMAIN choreo_groups :
        \A k \in 1..Len(choreo_groups[group_id].members) :
            (/\ choreo_groups[group_id].running
             /\ ~choreo_groups[group_id].members[k].started)
            => choreo_groups[group_id].elapsed_ms
                   < choreo_groups[group_id].members[k].start_at_ms

\* C23 as stated: after start(group) every member with offset 0 is
\* non-pending and every other member is pending; a member that has not
\* started stays pending and is not advanced until the first tick in which
\* the clock of the group reaches its offset, and in that tick it is
\* activated and credited the part of the tick after its offset.
C23_TimelineStartsMembers ==
    /\ \A group_id \in DOMAIN choreo_groups :
           ~choreo_groups[group_id].running => StartReleasesZero(group_id, TRUE)
    /\ \A group_id \in DOMAIN choreo_groups :
           \A k \in Waiting(group_id), elapsed_ms \in TickSlices :
               TimelineHolds(group_id, k, elapsed_ms)
    /\ ClockBelowWaiting

\* C23, amended: start(group) leaves a member with a later offset as it
\* was, so that a member already started by a chain or by an earlier run of
\* the group keeps advancing; the timeline holds and starts the members that
\* are pending, that no chain entry names as successor and that no other
\* running group holds unstarted.
C23_TimelineStartsPendingMembers ==
    /\ \A group_id \in DOMAIN choreo_groups :
           ~choreo_groups[group_id].running => StartReleasesZero(group_id, FALSE)
    /\ \A group_id \in DOMAIN choreo_groups :
           \A k \in Waiting(group_id), elapsed_ms \in TickSlices :
               (/\ ById(animations, choreo_groups[group_id].members[k].anim_id).pending
                /\ Predecessors(animation_chains,
                                choreo_groups[group_id].members[k].anim_id) = {}
                /\ ~ReleasedByGroup([choreo_groups EXCEPT ![group_id].running = FALSE],
                                    choreo_groups[group_id].members[k].anim_id))
               => TimelineHolds(group_id, k, elapsed_ms)
    /\ ClockBelowWaiting

\* A running group whose clock has advanced holds a pending member that a
\* tick has left waiting and whose offset the next tick crosses within the
\* tick, next to a member released at the start.
C23_Witness ==
    \E group_id \in DOMAIN choreo_groups :
        /\ \E k \in Waiting(group_id), elapsed_ms \in TickSlices :
               LET group == choreo_groups[group_id]
                   member == group.members[k]
               IN  /\ ById(animations, member.anim_id).pending
                   /\ Predecessors(animation_chains, member.anim_id) = {}
                   /\ 0 < group.elapsed_ms
                   /\ group.elapsed_ms < member.start_at_ms
                   /\ member.start_at_ms < group.elapsed_ms + elapsed_ms
        /\ \E j \in LiveMembers(choreo_groups[group_id]) :
               /\ choreo_groups[group_id].members[j].start_at_ms = 0
               /\ choreo_groups[group_id].members[j].started
               /\ ~ById(animations, choreo_groups[group_id].members[j].anim_id).pending

\* cancel(group) succeeds and removes, of the members that have not
\* started and whose animation is in the registry, those that are pending
\* when only_pending and all of them otherwise: the animation leaves the
\* registry and every group, so that no tick starts it.
CancelRemovesUnstarted(group_id, only_pending) ==
    LET group == choreo_groups[group_id]
        r == choreography_cancel(animations, animation_chains, choreo_groups, group_id)
    IN  /\ r.ok
        /\ \A k \in LiveMembers(group) :
               (/\ ~group.members[k].started
                /\ only_pending => ById(animations, group.members[k].anim_id).pending)
               => /\ group.members[k].anim_id \notin AnimIds(r.animations)
                  /\ group.members[k].anim_id \notin GroupMembers(r.choreo_groups)
                  /\ \A elapsed_ms \in TickSlices :
                         group.members[k].anim_id \notin
                             AnimIds(advance_animations(nodes, r.animations,
                                                        r.animation_chains,
                                                        r.choreo_groups,
                                                        elapsed_ms).animations)

\* cancel(group) leaves each member that has started, or when with_running
\* that is not pending, as it is in the registry, and the tick that follows
\* advances it by the whole tick or completes it; when with_running and a
\* second, running group holds the animation unstarted, the tick advances it
\* by no more than the tick.
CancelKeepsStarted(group_id, with_running) ==
    LET group == choreo_groups[group_id]
        r == choreography_cancel(animations, animation_chains, choreo_groups, group_id)
    IN  \A k \in LiveMembers(group) :
            LET a == ById(animations, group.members[k].anim_id)
            IN  (/\ group.members[k].started \/ (with_running /\ ~a.pending)
                 /\ with_running => ~a.pending)
                => /\ a.id \in AnimIds(r.animations)
                   /\ ById(r.animations, a.id) = a
                   /\ ~a.pending
                   /\ \A elapsed_ms \in TickSlices :
                          LET t == advance_animations(nodes, r.animations,
                                                      r.animation_chains,
                                                      r.choreo_groups, elapsed_ms)
                          IN  IF with_running /\ ReleasedByGroup(r.choreo_groups, a.id)
                              THEN a.id \in AnimIds(t.animations) =>
                                       /\ ~ById(t.animations, a.id).pending
                                       /\ ~a.spinner /\ ~a.looping =>
                                              /\ a.elapsed_ms <= ById(t.animations, a.id).elapsed_ms
                                              /\ ById(t.animations, a.id).elapsed_ms
                                                     <= a.elapsed_ms + elapsed_ms
                              ELSE IF ~a.spinner /\ ~a.looping
                                      /\ a.elapsed_ms + elapsed_ms >= a.duration_ms
                                   THEN a.id \notin AnimIds(t.animations)
                                   ELSE /\ a.id \in AnimIds(t.animations)
                                        /\ ~a.spinner =>
                                               ById(t.animations, a.id).elapsed_ms
                                                   = a.elapsed_ms + elapsed_ms

\* cancel(group) leaves the group, when members remain to it, not running.
CancelStops(group_id) ==
    LET r == choreography_cancel(animations, animation_chains, choreo_groups, group_id)
    IN  group_id \in DOMAIN r.choreo_groups => ~r.choreo_groups[group_id].running

\* C24 as stated: after cancel(group) succeeds, every member that had not
\* started is no longer in the registry, so that no later tick starts it,
\* every member that had started is still in the registry and keeps
\* advancing, and the group is not running.
C24_CancelDropsUnstarted ==
    \A group_id \in DOMAIN choreo_groups :
        /\ CancelRemovesUnstarted(group_id, FALSE)
        /\ CancelKeepsStarted(group_id, FALSE)
        /\ CancelStops(group_id)

\* C24, amended: cancel(group) removes the members that have not started
\* and are pending; a member that is not pending, whether marked started or
\* started by a chain or by an earlier run of the group, stays in the
\* registry and keeps advancing; the group is not running.
C24_CancelDropsPendingUnstarted ==
    \A group_id \in DOMAIN choreo_groups :
        /\ CancelRemovesUnstarted(group_id, TRUE)
        /\ CancelKeepsStarted(group_id, TRUE)
        /\ CancelStops(group_id)

\* A running group with a member that has started and advances, and a member
\* that waits for its offset.
C24_Witness ==
    \E group_id \in DOMAIN choreo_groups :
        /\ choreo_groups[group_id].running
        /\ \E j \in LiveMembers(choreo_groups[group_id]) :
               /\ choreo_groups[group_id].members[j].started
               /\ ~ById(animations, choreo_groups[group_id].members[j].anim_id).pending
        /\ \E k \in Waiting(group_id) :
               ById(animations, choreo_groups[group_id].members[k].anim_id).pending


(***************************************************************************)
(* C25: within a render the steps run in this order: animation tick,       *)
(* layout, paint into the front buffer, diff against the back buffer,      *)
(* backend write and flush, buffer swap, clearing of the dirty flags.      *)
(* Stated on what a render leaves, for every elapsed time, every result of *)
(* the solver and every outcome of the backend: the animations have        *)
(* advanced even when the layout fails and nothing else has happened then; *)
(* the frame is painted from the values the tick has written and from the  *)
(* layout of this render; the diff that is written compares that frame     *)
(* with the back buffer; a failed write leaves the painted frame and no    *)
(* diff written; a failed flush leaves the diff written and the buffers    *)
(* not swapped; only a render that got through swaps the buffers and       *)
(* clears the dirty flags, of the nodes as the paint left them.            *)
(***************************************************************************)
\* The back buffer before the diff: blank when the terminal size differs
\* from the size of the buffers
BackAtDiff ==
    IF front_buffer.width # backend.width \/ front_buffer.height # backend.height
    THEN NewBuffer(backend.width, backend.height)
    ELSE back_buffer

\* The frame painted from the nodes ns and the layouts tr
FrameOf(ns, tr) ==
    render_node([nodes |-> ns, tree |-> tr, theme_bindings |-> theme_bindings,
                 themes |-> themes,
                 front_buffer |-> NewBuffer(backend.width, backend.height),
                 ok |-> TRUE],
                root, 0, 0, ClipFull(backend.width, backend.height),
                Cardinality(DOMAIN ns) + 1)

RenderInOrder(elapsed_ms, solved, write_ok, flush_ok) ==
    LET r == render(Context, elapsed_ms, solved, write_ok, flush_ok)
        t == advance_animations(nodes, animations, animation_chains, choreo_groups,
                                elapsed_ms)
        laid == compute_layout(tree, root, solved)
        frame == FrameOf(t.nodes, laid)
        diff == diff_buffers(frame.front_buffer, BackAtDiff)
    IN  /\ r.animations = t.animations
        /\ ~compute_layout_ok(t.nodes, root) =>
               /\ ~r.ok
               /\ r.nodes = t.nodes
               /\ r.tree = tree
               /\ r.front_buffer = front_buffer /\ r.back_buffer = back_buffer
               /\ r.backend = backend
        /\ compute_layout_ok(t.nodes, root) =>
               /\ r.tree = laid
               /\ r.ok = (frame.ok /\ write_ok /\ flush_ok)
               /\ ~r.ok =>
                      /\ r.nodes = frame.nodes
                      /\ r.front_buffer = frame.front_buffer
                      /\ r.back_buffer = BackAtDiff
               /\ r.backend.written =
                      IF frame.ok /\ write_ok THEN diff ELSE backend.written
               /\ r.ok =>
                      /\ r.back_buffer = frame.front_buffer
                      /\ r.front_buffer = BackAtDiff
                      /\ r.nodes = clear_dirty_flags(frame.nodes)

C25_RenderOrder ==
    \A elapsed_ms \in RenderSlices, solved \in RenderSolved,
       write_ok \in BOOLEAN, flush_ok \in BOOLEAN :
        RenderInOrder(elapsed_ms, solved, write_ok, flush_ok)

\* A frame has been painted, and the root has a background and a PositionX
\* animation that the next tick moves: the next frame depends on whether the
\* tick comes before the paint.
C25_Witness ==
    /\ root # None /\ root \in DOMAIN nodes
    /\ nodes[root].visible /\ nodes[root].bg_color # 0
    /\ nodes[root].render_offset = 0
    /\ back_buffer # NewBuffer(back_buffer.width, back_buffer.height)
    /\ \E k \in 1..Len(animations) :
           /\ animations[k].target = root
           /\ animations[k].property = "PositionX"
           /\ animations[k].end_bits = One
    /\ \E solved \in RenderSolved :
           FrameOf(advance_animations(nodes, animations, animation_chains,
                                      choreo_groups, 1).nodes,
                   compute_layout(tree, root, solved)).front_buffer
               # FrameOf(nodes, compute_layout(tree, root, solved)).front_buffer


(***************************************************************************)
(* C26: after a render that returns success no node of the node table is   *)
(* dirty, the invisible nodes and the nodes that the root does not reach   *)
(* included; for every elapsed time and every outcome of the backend.      *)
(***************************************************************************)
C26_CleanAfterRender ==
    \A elapsed_ms \in 0..1, write_ok \in BOOLEAN, flush_ok \in BOOLEAN :
        LET r == render(Context, elapsed_ms, Unsized, write_ok, flush_ok)
        IN  r.ok => \A h \in DOMAIN r.nodes : ~r.nodes[h].dirty

\* A render succeeds here, with a dirty invisible node under the root and a
\* dirty node that the root does not reach.
C26_Witness ==
    /\ render(Context, 0, Unsized, TRUE, TRUE).ok
    /\ \E h \in SubtreeByChildren(nodes, {root}, {}) :
           nodes[h].dirty /\ ~nodes[h].visible
    /\ \E h \in DOMAIN nodes \ SubtreeByChildren(nodes, {root}, {}) : nodes[h].dirty


(***************************************************************************)
(* C27: the diff that a render writes to the backend holds an update for   *)
(* a position exactly when the frame just painted into the front buffer    *)
(* differs there from the back buffer as the diff finds it, before the     *)
(* swap; it holds each position at most once, and each update carries the  *)
(* cell of the painted frame.  For every render whose write succeeds,      *)
(* whether or not the flush does.                                          *)
(***************************************************************************)
\* The updates of the list written for the position pos
UpdatesAt(written, pos) ==
    {k \in 1..Len(written) : written[k].x = pos[1] /\ written[k].y = pos[2]}

DiffIsExact(elapsed_ms, solved, flush_ok) ==
    LET r == render(Context, elapsed_ms, solved, TRUE, flush_ok)
        \* after the swap the painted frame is the back buffer
        painted == IF r.ok THEN r.back_buffer ELSE r.front_buffer
        prior == IF r.ok THEN r.front_buffer ELSE r.back_buffer
        written == r.backend.written
    IN  compute_layout_ok(r.nodes, root) =>
            /\ prior = BackAtDiff
            /\ \A pos \in DOMAIN painted.cells :
                   /\ (UpdatesAt(written, pos) # {}) <=>
                          (pos \notin DOMAIN prior.cells
                               \/ painted.cells[pos] # prior.cells[pos])
                   /\ Cardinality(UpdatesAt(written, pos)) <= 1
            /\ \A k \in 1..Len(written) :
                   /\ <<written[k].x, written[k].y>> \in DOMAIN painted.cells
                   /\ written[k].cell = painted.cells[<<written[k].x, written[k].y>>]

C27_DiffExact ==
    \A elapsed_ms \in RenderSlices, solved \in RenderSolved, flush_ok \in BOOLEAN :
        DiffIsExact(elapsed_ms, solved, flush_ok)

\* The previous frame is in the back buffer, with a cell of the root's
\* background in it, and the next render can paint a frame that has this
\* cell again and has another cell changed: its diff holds the one and not
\* the other.
C27_Witness ==
    /\ root # None /\ root \in DOMAIN nodes
    /\ front_buffer.width = backend.width
    /\ \E pos \in DOMAIN back_buffer.cells : back_buffer.cells[pos] # BlankCell
    /\ \E solved \in RenderSolved :
           LET r == render(Context, 0, solved, TRUE, TRUE)
           IN  /\ r.ok
               /\ r.backend.written # <<>>
               /\ \E pos \in DOMAIN r.back_buffer.cells :
                      /\ r.back_buffer.cells[pos] # BlankCell
                      /\ UpdatesAt(r.backend.written, pos) = {}


(***************************************************************************)
(* C28: immediately after any set_scroll or scroll_by on a ScrollBox whose *)
(* computed maximum is <<mx, my>>, its offsets satisfy 0 <= scroll_x <= mx *)
(* and 0 <= scroll_y <= my, for every requested position or delta.         *)
(* Violated: scroll_by adds the delta to the offset in i32 before it       *)
(* clamps.  A build with overflow checks panics on a sum that overflows    *)
(* and the call ends with the offsets as they were, above the maximum when *)
(* the maximum has shrunk since they were stored.                          *)
(***************************************************************************)
\* The offsets of the ScrollBox h are within the maximum computed for it
ScrollWithinMax(ns, tr, h) ==
    LET max_scroll == compute_max_scroll(ns, tr, h)
    IN  /\ 0 <= ns[h].scroll_x /\ ns[h].scroll_x <= max_scroll[1]
        /\ 0 <= ns[h].scroll_y /\ ns[h].scroll_y <= max_scroll[2]

ScrollBoxes == {h \in DOMAIN nodes : nodes[h].node_type = "ScrollBox"}

\* The requests: below the range, zero, within or beyond it, and i32::MAX
AllRequests == ScrollRequests \cup {0, 0 - I32_MAX}

C28_ScrollClamped ==
    \A h \in ScrollBoxes, x \in AllRequests, y \in AllRequests :
        /\ ScrollWithinMax(set_scroll(nodes, tree, h, x, y).nodes, tree, h)
        /\ \A overflow_checks \in BOOLEAN :
               ScrollWithinMax(scroll_by(nodes, tree, h, x, y, overflow_checks), tree, h)

\* What holds of scroll_by: the offsets are within the maximum after every
\* call that returns, the calls whose sum has wrapped included.
ScrollClampedOnReturn ==
    \A h \in ScrollBoxes, x \in AllRequests, y \in AllRequests :
        /\ ScrollWithinMax(set_scroll(nodes, tree, h, x, y).nodes, tree, h)
        /\ \A overflow_checks \in BOOLEAN :
               ~scroll_by_panics(nodes, h, x, y, overflow_checks) =>
                   ScrollWithinMax(scroll_by(nodes, tree, h, x, y, overflow_checks),
                                   tree, h)

(***************************************************************************)
(* C29: after every render that succeeds, each ScrollBox painted in that   *)
(* frame has its stored offsets within 0 and the maximum computed from the *)
(* layout of that frame, also when the size of the child, the size of the  *)
(* viewport, the border or the child list has changed since the last       *)
(* set_scroll or scroll_by.                                                *)
(***************************************************************************)
\* The nodes that render_node visits and paints: from the root through the
\* child lists of visible nodes
RECURSIVE PaintedFrom(_, _, _)
PaintedFrom(ns, frontier, seen) ==
    LET fresh == {h \in (frontier \cap DOMAIN ns) \ seen : ns[h].visible}
    IN  IF fresh = {} THEN seen
        ELSE PaintedFrom(ns, UNION {SeqToSet(ns[h].children) : h \in fresh},
                         seen \cup fresh)

C29_RenderReclamps ==
    \A solved \in ScrollSolved, write_ok \in BOOLEAN, flush_ok \in BOOLEAN :
        LET r == render(Context, 0, solved, write_ok, flush_ok)
        IN  r.ok =>
                \A h \in PaintedFrom(r.nodes, {root}, {}) :
                    r.nodes[h].node_type = "ScrollBox" =>
                        ScrollWithinMax(r.nodes, r.tree, h)

\* A ScrollBox under the root holds an offset that the layout of the next
\* frame puts above the maximum, and the render of that frame succeeds.
C29_Witness ==
    \E h \in ScrollBoxes, solved \in ScrollSolved :
        /\ h \in PaintedFrom(nodes, {root}, {})
        /\ nodes[h].scroll_x > 0
        /\ ScrollWithinMax(nodes, tree, h)
        /\ ~ScrollWithinMax(nodes, compute_layout(tree, root, solved), h)
        /\ render(Context, 0, solved, TRUE, TRUE).ok


(***************************************************************************)
(* C30: for every node and every style property p: when the presence bit   *)
(* of the node for p is unset and the theme bound to the nearest bound     *)
(* node on the path from the node up to its root, the node included, sets  *)
(* p, the resolved style has the value of that theme for p; otherwise it   *)
(* has the value that the node stores.                                     *)
(***************************************************************************)
\* The nearest node with a theme binding on the path from h up its parent
\* links, h included; None when the path has none
NearestBound(h) ==
    LET steps == {k \in 0..Cardinality(DOMAIN nodes) :
                     Up(nodes, h, k) \in DOMAIN theme_bindings}
    IN  IF steps = {} THEN None
        ELSE Up(nodes, h, CHOOSE k \in steps : \A j \in steps : k <= j)

\* The theme bound to the nearest bound node sets p
ThemeSets(h, p) ==
    /\ NearestBound(h) # None
    /\ theme_bindings[NearestBound(h)] \in DOMAIN themes
    /\ p \in themes[theme_bindings[NearestBound(h)]].mask

C30_ThemeCascade ==
    \A h \in DOMAIN nodes, p \in StyleProps :
        LET resolved == resolve_style(nodes, theme_bindings, themes, h)
        IN  IF p \notin nodes[h].style_mask /\ ThemeSets(h, p)
            THEN resolved[p] = themes[theme_bindings[NearestBound(h)]][p]
            ELSE resolved[p] = nodes[h][p]

\* A node and its parent are bound to two themes with different foreground
\* colours; the node has set its background and not its foreground, and its
\* own theme sets both to other values than the node stores.
C30_Witness ==
    \E h \in DOMAIN nodes :
        /\ nodes[h].parent \in DOMAIN theme_bindings
        /\ h \in DOMAIN theme_bindings
        /\ theme_bindings[h] # theme_bindings[nodes[h].parent]
        /\ themes[theme_bindings[h]].fg_color
               # themes[theme_bindings[nodes[h].parent]].fg_color
        /\ nodes[h].style_mask = {"bg_color"}
        /\ {"fg_color", "bg_color"} \subseteq themes[theme_bindings[h]].mask
        /\ themes[theme_bindings[h]].fg_color # nodes[h].fg_color
        /\ themes[theme_bindings[h]].bg_color # nodes[h].bg_color
        /\ resolve_style(nodes, theme_bindings, themes, h).fg_color # nodes[h].fg_color

(***************************************************************************)
(* The lifetime of the context (context.rs, lib.rs tui_init, tui_shutdown) *)
(*                                                                         *)
(* process.initialized says CONTEXT holds Some(context); the context's     *)
(* fields are the other variables.  After guard.take() the variables keep  *)
(* the dropped context's last values, which no entry point reaches:        *)
(* context_read and context_write fail while CONTEXT is None.              *)
(***************************************************************************)
\* ensure_thread_affinity: Ok unless OWNER_THREAD names another thread
ensure_thread_affinity(proc, thread) ==
    proc.owner_thread = None \/ proc.owner_thread = thread

\* bind_owner_thread_current
bind_owner_thread_current(proc, thread) ==
    IF proc.owner_thread # None /\ proc.owner_thread # thread
    THEN [ok |-> FALSE, process |-> proc]
    ELSE [ok |-> TRUE, process |-> [proc EXCEPT !.owner_thread = thread]]

\* clear_owner_thread
clear_owner_thread(proc) == [proc EXCEPT !.owner_thread = None]

\* is_context_initialized
is_context_initialized(proc, thread) ==
    [ok |-> ensure_thread_affinity(proc, thread), value |-> proc.initialized]

\* init_context run by one thread without interruption; created says that
\* CONTEXT was set to Some(TuiContext::new(backend)).
init_context(proc, thread) ==
    IF ~ensure_thread_affinity(proc, thread)
    THEN [ok |-> FALSE, process |-> proc, created |-> FALSE]
    ELSE LET bound == bind_owner_thread_current(proc, thread).process
         IN  IF bound.initialized
             THEN [ok |-> FALSE, process |-> bound, created |-> FALSE]
             ELSE [ok |-> TRUE, process |-> [bound EXCEPT !.initialized = TRUE],
                   created |-> TRUE]

\* An initialisation that replaces a context that exists.
InitOverExisting(proc, thread, backend_ok) ==
    IF ~backend_ok
    THEN [ok |-> FALSE, process |-> proc, created |-> FALSE]
    ELSE [ok |-> TRUE,
          process |-> [proc EXCEPT !.initialized = TRUE, !.owner_thread = thread],
          created |-> TRUE]

\* tui_init and tui_init_headless: backend_ok is the result of backend.init(),
\* which a headless backend never fails.
tui_init(proc, thread, backend_ok) ==
    IF ~is_context_initialized(proc, thread).ok
        \/ is_context_initialized(proc, thread).value
        \/ ~backend_ok
    THEN [ok |-> FALSE, process |-> proc, created |-> FALSE]
    ELSE init_context(proc, thread)

\* destroy_context run by one thread without interruption
destroy_context(proc, thread) ==
    IF ~ensure_thread_affinity(proc, thread)
    THEN [ok |-> FALSE, process |-> proc]
    ELSE [ok |-> TRUE,
          process |-> clear_owner_thread([proc EXCEPT !.initialized = FALSE])]

\* TuiContext::new over a backend of the given size
NewContext(width, height) ==
    [nodes |-> <<>>, tree |-> <<>>, next_handle |-> 1, root |-> None,
     focused |-> None, event_buffer |-> <<>>, animations |-> <<>>,
     next_anim_handle |-> 1, animation_chains |-> <<>>, choreo_groups |-> <<>>,
     next_choreo_group_handle |-> 1, theme_bindings |-> <<>>,
     themes |-> create_builtin_themes,
     next_theme_handle |-> FIRST_USER_THEME_HANDLE,
     front_buffer |-> NewBuffer(width, height),
     back_buffer |-> NewBuffer(width, height),
     backend |-> [width |-> width, height |-> height, written |-> <<>>]]

\* CONTEXT = Some(context)
SetContext(context) ==
    /\ nodes' = context.nodes
    /\ tree' = context.tree
    /\ next_handle' = context.next_handle
    /\ root' = context.root
    /\ focused' = context.focused
    /\ event_buffer' = context.event_buffer
    /\ animations' = context.animations
    /\ next_anim_handle' = context.next_anim_handle
    /\ animation_chains' = context.animation_chains
    /\ choreo_groups' = context.choreo_groups
    /\ next_choreo_group_handle' = context.next_choreo_group_handle
    /\ theme_bindings' = context.theme_bindings
    /\ themes' = context.themes
    /\ next_theme_handle' = context.next_theme_handle
    /\ front_buffer' = context.front_buffer
    /\ back_buffer' = context.back_buffer
    /\ backend' = context.backend
    /\ returned' = <<>>

\* The fields of the context
context_vars ==
    <<nodes, tree, next_handle, root, focused, event_buffer, animations,
      next_anim_handle, animation_chains, choreo_groups,
      next_choreo_group_handle, theme_bindings, themes, next_theme_handle,
      front_buffer, back_buffer, backend, returned>>

\* tui_init_headless(width, height), and tui_init when the terminal has this
\* size and backend.init() returns backend_ok
TuiInit(thread, width, height, backend_ok) ==
    \E r \in {tui_init(process, thread, backend_ok)} :
        /\ process' = r.process
        /\ IF r.created
           THEN SetContext(NewContext(width, height))
           ELSE UNCHANGED context_vars

\* tui_shutdown
TuiShutdown(thread) ==
    /\ process' = destroy_context(process, thread).process
    /\ UNCHANGED context_vars

(***************************************************************************)
(* A run of initialisations and shutdowns around a small tree, all on the  *)
(* thread that owns the context.                                           *)
(***************************************************************************)
MaxLifeNodes == 3

LifeWidths == {2, InitialScreen.width}

LifeCreate ==
    /\ process.initialized
    /\ \E node_type \in {"Box", "Text"} : CreateNode(MaxLifeNodes, node_type)

LifeAppend ==
    /\ process.initialized
    /\ \E parent, child \in Handles(MaxLifeNodes) : AppendChild(parent, child)

LifeSetRoot ==
    /\ process.initialized
    /\ \E handle \in Handles(MaxLifeNodes) : SetRoot(handle)

LifeDestroy ==
    /\ process.initialized
    /\ \E handle \in Handles(MaxLifeNodes) : DestroyNode(handle)

LifeInit ==
    \E width \in LifeWidths, backend_ok \in BOOLEAN :
        TuiInit(1, width, InitialScreen.height, backend_ok)

LifeShutdown == TuiShutdown(1)

NextLife ==
    \/ LifeCreate
    \/ LifeAppend
    \/ LifeSetRoot
    \/ LifeDestroy
    \/ LifeInit
    \/ LifeShutdown

SpecLife == Init /\ [][NextLife]_vars

(***************************************************************************)
(* C31: whenever a context exists, tui_init and tui_init_headless fail and *)
(* leave the context and the owner as they are; when none exists (before   *)
(* the first initialisation or after tui_shutdown) an initialisation whose *)
(* backend starts succeeds, and the step that creates the context leaves   *)
(* no node, so that no handle of the old context is valid, and hands out   *)
(* node handles from 1 again.                                              *)
(***************************************************************************)
InitRefusedOrFresh ==
    \A backend_ok \in BOOLEAN :
        LET r == tui_init(process, 1, backend_ok)
        IN  IF process.initialized
            THEN ~r.ok /\ ~r.created /\ r.process = process
            ELSE backend_ok => r.ok /\ r.created /\ r.process.initialized

FreshAfterInit ==
    (~process.initialized /\ process'.initialized)
        => /\ next_handle' = 1
           /\ \A handle \in Handles(MaxLifeNodes) : ~validate_handle(nodes', handle)
           /\ root' = None /\ focused' = None
           /\ returned' = <<>>

C31_InitLifecycle ==
    /\ []InitRefusedOrFresh
    /\ [][FreshAfterInit]_vars

\* The context was shut down while it held nodes, one of them the root.
C31_Witness ==
    /\ ~process.initialized
    /\ process.owner_thread = None
    /\ next_handle > 2
    /\ root # None

(***************************************************************************)
(* Entry points running on several threads (context.rs).  A call advances  *)
(* from one acquisition of the OWNER_THREAD or CONTEXT lock to the next;   *)
(* process.calls[thread].at names the acquisition the thread makes next:   *)
(*   tui_create_node     write:affinity, write:lock, write:guard           *)
(*   tui_init_headless   probe:affinity, probe:lock, init:affinity,        *)
(*                       init:bind, init:lock                              *)
(*   tui_shutdown        destroy:affinity, destroy:lock, destroy:clear     *)
(* from_other_thread records that at the call's start a context existed    *)
(* and OWNER_THREAD named another thread.                                  *)
(***************************************************************************)
MaxThreadNodes == 2

EntryPoints ==
    [tui_create_node |-> "write:affinity", tui_init_headless |-> "probe:affinity",
     tui_shutdown |-> "destroy:affinity"]

\* The acquisition that follows a passed ensure_thread_affinity
AfterAffinity ==
    [write_affinity |-> "write:lock", probe_affinity |-> "probe:lock",
     init_affinity |-> "init:bind", destroy_affinity |-> "destroy:lock"]

AffinityPoint(at) ==
    CASE at = "write:affinity" -> "write_affinity"
      [] at = "probe:affinity" -> "probe_affinity"
      [] at = "init:affinity" -> "init_affinity"
      [] at = "destroy:affinity" -> "destroy_affinity"
      [] OTHER -> "none"

At(thread) == process.calls[thread].at

\* The thread's call moves on to the acquisition at, or returns (Idle)
MoveTo(thread, at) == [process EXCEPT !.calls[thread].at = at]

Return(thread) == [process EXCEPT !.calls[thread] = Idle]

\* No thread holds a guard of the CONTEXT lock
ContextLockFree == \A t \in Threads : At(t) # "write:guard"

\* The calls in flight that will create a node
PendingCreates ==
    Cardinality({t \in Threads :
                    At(t) \in {"write:affinity", "write:lock", "write:guard"}})

\* A thread enters an entry point
ThreadInvoke(thread, entry) ==
    /\ At(thread) = "idle"
    /\ entry = "tui_create_node" => next_handle + PendingCreates <= MaxThreadNodes
    /\ process' = [process EXCEPT !.calls[thread] =
                       [at |-> EntryPoints[entry],
                        from_other_thread |->
                            /\ process.initialized
                            /\ process.owner_thread \notin {None, thread}]]
    /\ UNCHANGED context_vars

\* ensure_thread_affinity at the head of context_write, is_context_initialized,
\* init_context and destroy_context
ThreadAffinity(thread) ==
    /\ AffinityPoint(At(thread)) # "none"
    /\ process' = IF ensure_thread_affinity(process, thread)
                  THEN MoveTo(thread, AfterAffinity[AffinityPoint(At(thread))])
                  ELSE Return(thread)
    /\ UNCHANGED context_vars

\* context_write: context_lock().write(), then the test of guard.is_none()
ContextWriteLock(thread) ==
    /\ At(thread) = "write:lock"
    /\ ContextLockFree
    /\ process' = IF process.initialized
                  THEN MoveTo(thread, "write:guard")
                  ELSE Return(thread)
    /\ UNCHANGED context_vars

\* tui_create_node under the write guard: tree::create_node, then the guard
\* is dropped
ContextWriteDone(thread) ==
    /\ At(thread) = "write:guard"
    /\ process' = Return(thread)
    /\ next_handle' = next_handle + 1
    /\ nodes' = MapInsert(nodes, next_handle, NewNode("Box"))
    /\ tree' = TaffyNew(tree, next_handle)
    /\ returned' = Append(returned, next_handle)
    /\ UNCHANGED <<themes, next_theme_handle, front_buffer, back_buffer, backend,
                   root, focused, event_buffer, animations, next_anim_handle,
                   theme_bindings, animation_chains, choreo_groups,
                   next_choreo_group_handle>>

\* is_context_initialized in tui_init_headless: the read of CONTEXT
ProbeLock(thread) ==
    /\ At(thread) = "probe:lock"
    /\ ContextLockFree
    /\ process' = IF process.initialized
                  THEN Return(thread)
                  ELSE MoveTo(thread, "init:affinity")
    /\ UNCHANGED context_vars

\* init_context: bind_owner_thread_current
InitBind(thread) ==
    /\ At(thread) = "init:bind"
    /\ process' = IF bind_owner_thread_current(process, thread).ok
                  THEN [bind_owner_thread_current(process, thread).process
                           EXCEPT !.calls[thread].at = "init:lock"]
                  ELSE Return(thread)
    /\ UNCHANGED context_vars

\* init_context: context_lock().write() and the assignment of CONTEXT
InitLock(thread) ==
    /\ At(thread) = "init:lock"
    /\ ContextLockFree
    /\ IF process.initialized
       THEN /\ process' = Return(thread)
            /\ UNCHANGED context_vars
       ELSE /\ process' = [Return(thread) EXCEPT !.initialized = TRUE]
            /\ SetContext(NewContext(InitialScreen.width, InitialScreen.height))

\* destroy_context: context_lock().write() and guard.take()
DestroyLock(thread) ==
    /\ At(thread) = "destroy:lock"
    /\ ContextLockFree
    /\ process' = [MoveTo(thread, "destroy:clear") EXCEPT !.initialized = FALSE]
    /\ UNCHANGED context_vars

\* destroy_context: clear_owner_thread
DestroyClear(thread) ==
    /\ At(thread) = "destroy:clear"
    /\ process' = clear_owner_thread(Return(thread))
    /\ UNCHANGED context_vars

ThreadsInvoke ==
    \E thread \in Threads,
       entry \in {"tui_create_node", "tui_init_headless", "tui_shutdown"} :
        ThreadInvoke(thread, entry)

ThreadsAffinity == \E thread \in Threads : ThreadAffinity(thread)

ThreadsWriteLock == \E thread \in Threads : ContextWriteLock(thread)

ThreadsWriteDone == \E thread \in Threads : ContextWriteDone(thread)

ThreadsProbeLock == \E thread \in Threads : ProbeLock(thread)

ThreadsInitBind == \E thread \in Threads : InitBind(thread)

ThreadsInitLock == \E thread \in Threads : InitLock(thread)

ThreadsDestroyLock == \E thread \in Threads : DestroyLock(thread)

ThreadsDestroyClear == \E thread \in Threads : DestroyClear(thread)

NextThreads ==
    \/ ThreadsInvoke
    \/ ThreadsAffinity
    \/ ThreadsWriteLock
    \/ ThreadsWriteDone
    \/ ThreadsProbeLock
    \/ ThreadsInitBind
    \/ ThreadsInitLock
    \/ ThreadsDestroyLock
    \/ ThreadsDestroyClear

SpecThreads == Init /\ [][NextThreads]_vars

(***************************************************************************)
(* C32: a call to tui_create_node that a thread makes while a context      *)
(* exists and another thread owns it never gets the write guard of a       *)
(* context, whatever the owning thread's tui_init_headless and             *)
(* tui_shutdown calls do in between.                                       *)
(***************************************************************************)
C32_OtherThreadNeverEnters ==
    \A thread \in Threads :
        process.calls[thread].from_other_thread => At(thread) # "write:guard"

(***************************************************************************)
(* The option list of a Select (the tui_select entry points of lib.rs)     *)
(***************************************************************************)
\* The node the handle names is a Select
IsSelect(ns, handle) ==
    validate_handle(ns, handle) /\ ns[handle].node_type = "Select"

\* A faulty removal that leaves the selection as it is.
RemoveKeepsSelection(n, index) ==
    IF index >= n.options THEN n
    ELSE [n EXCEPT !.options = @ - 1, !.dirty = TRUE]

\* tui_select_remove_option on the Select node n
select_remove_option(n, index) ==
    IF index >= n.options THEN n
    ELSE [n EXCEPT !.options = @ - 1,
                   !.selected_index =
                       IF @ = Unselected THEN @
                       ELSE IF @ = index THEN Unselected
                       ELSE IF @ > index THEN @ - 1
                       ELSE @,
                   !.dirty = TRUE]

\* tui_select_clear_options on the Select node n
select_clear_options(n) ==
    [n EXCEPT !.options = 0, !.selected_index = Unselected, !.dirty = TRUE]

\* tui_select_set_selected on the Select node n
select_set_selected(n, index) ==
    IF index >= n.options THEN n
    ELSE [n EXCEPT !.selected_index = index, !.dirty = TRUE]

\* An entry point that rewrites the Select node of the handle
SelectUpdate(handle, node) ==
    /\ nodes' = IF IsSelect(nodes, handle)
                THEN [nodes EXCEPT ![handle] = node]
                ELSE nodes
    /\ UNCHANGED <<themes, next_theme_handle, front_buffer, back_buffer, backend,
                   tree, next_handle, root, focused, event_buffer, animations,
                   next_anim_handle, theme_bindings, returned, process,
                   animation_chains, choreo_groups, next_choreo_group_handle>>

SelectRemoveOption(handle, index) ==
    SelectUpdate(handle, IF IsSelect(nodes, handle)
                         THEN select_remove_option(nodes[handle], index)
                         ELSE <<>>)

SelectClearOptions(handle) ==
    SelectUpdate(handle, IF IsSelect(nodes, handle)
                         THEN select_clear_options(nodes[handle])
                         ELSE <<>>)

SelectSetSelected(handle, index) ==
    SelectUpdate(handle, IF IsSelect(nodes, handle)
                         THEN select_set_selected(nodes[handle], index)
                         ELSE <<>>)

(***************************************************************************)
(* SpecSelect: a Select and a Box, the focus on either, options added,     *)
(* removed, cleared and selected, and read_input delivering one key at a   *)
(* time.                                                                   *)
(***************************************************************************)
MaxSelectNodes == 2
MaxSelectOptions == 3
MaxSelectEvents == 2

SelectKeys == {UP, DOWN, ENTER, ESCAPE}

SelectCreate == \E node_type \in {"Select", "Box"} : CreateNode(MaxSelectNodes, node_type)

SelectFocus ==
    \E handle \in Handles(MaxSelectNodes) :
        Len(event_buffer) < MaxSelectEvents /\ Focus(handle)

SelectAdd == \E handle \in Handles(MaxSelectNodes) : SelectAddOption(handle, MaxSelectOptions)

SelectRemove ==
    \E handle \in Handles(MaxSelectNodes), index \in 0..MaxSelectOptions :
        SelectRemoveOption(handle, index)

SelectClear == \E handle \in Handles(MaxSelectNodes) : SelectClearOptions(handle)

SelectSet ==
    \E handle \in Handles(MaxSelectNodes), index \in 0..MaxSelectOptions :
        SelectSetSelected(handle, index)

SelectReadKey ==
    \E code \in SelectKeys : ReadInput(<<RawKey(code, "NUL")>>, MaxSelectEvents)

NextSelect ==
    \/ SelectCreate
    \/ SelectFocus
    \/ SelectAdd
    \/ SelectRemove
    \/ SelectClear
    \/ SelectSet
    \/ SelectReadKey
    \/ NextEvent

SpecSelect == Init /\ [][NextSelect]_vars

(***************************************************************************)
(* C33: the selected index of every Select is unset or less than the       *)
(* number of its options, after any sequence of add-option, remove-option, *)
(* clear-options, set-selected and Up and Down keys.                       *)
(***************************************************************************)
C33_SelectedInRange ==
    \A h \in DOMAIN nodes :
        nodes[h].node_type = "Select" =>
            \/ nodes[h].selected_index = Unselected
            \/ /\ nodes[h].selected_index >= 0
               /\ nodes[h].selected_index < nodes[h].options

\* A Select whose last option is selected: removing any option before it
\* has to move the selection.
C33_Witness ==
    \E h \in DOMAIN nodes :
        /\ nodes[h].node_type = "Select"
        /\ nodes[h].options = MaxSelectOptions
        /\ nodes[h].selected_index = MaxSelectOptions - 1
        /\ focused = h

(***************************************************************************)
(* C34: with a Select focused, read_input turns every Enter key into       *)
(* Submit(target) for that Select and into no Key event, whatever the      *)
(* options and the selection of the Select.                                *)
(***************************************************************************)
\* What read_input makes of one Enter key in the current state
AfterEnter == read_input(nodes, root, focused, event_buffer, <<RawKey(ENTER, "NUL")>>)

\* read_input has appended Submit(focused) and nothing else
EnterSubmits ==
    /\ AfterEnter.event_buffer = Append(event_buffer, TuiEvent("Submit", focused, <<>>))
    /\ AfterEnter.nodes = nodes
    /\ AfterEnter.focused = focused

SelectFocused == focused # None /\ IsSelect(nodes, focused)

C34_EnterSubmits == SelectFocused => EnterSubmits

\* C34 as the code has it: a focused Select with at least one option turns
\* Enter into Submit(target) and no Key event; a focused Select without
\* options consumes no key, and Enter is forwarded as a Key event.
C34_EnterSubmitsWithOptions ==
    SelectFocused =>
        IF nodes[focused].options > 0
        THEN EnterSubmits
        ELSE /\ AfterEnter.event_buffer
                    = Append(event_buffer, TuiEvent("Key", focused, <<ENTER>>))
             /\ AfterEnter.nodes = nodes

\* A focused Select with options and a selection, and room for an event.
C34_Witness ==
    /\ SelectFocused
    /\ nodes[focused].options = 2
    /\ nodes[focused].selected_index = 1
    /\ Len(event_buffer) = 1

(***************************************************************************)
(* The content and the cursor of a TextArea (lib.rs tui_set_content,       *)
(* tui_textarea_set_cursor)                                                *)
(***************************************************************************)
\* The graphemes of a string given as its characters
Graphemes(text) ==
    LET lines == split_textarea_lines(text)
    IN  join_textarea_lines([k \in 1..Len(lines) |-> Segment(lines[k])])

\* lib.rs clamp_textarea_cursor on the TextArea node n
clamp_textarea_cursor(n) ==
    LET at == clamp_textarea_cursor_lines(split_textarea_lines(n.content),
                                          n.cursor_row, n.cursor_col)
    IN  [n EXCEPT !.cursor_row = at.row, !.cursor_col = at.col]

\* tui_set_content on the node n
set_content(n, text) ==
    LET stored == [n EXCEPT !.content = Graphemes(text), !.dirty = TRUE]
    IN  IF n.node_type = "TextArea" THEN clamp_textarea_cursor(stored)
        ELSE IF n.node_type = "Input"
        THEN [stored EXCEPT !.cursor_position = Min(@, Len(stored.content))]
        ELSE stored

\* tui_textarea_set_cursor on the TextArea node n
textarea_set_cursor(n, row, col) ==
    [clamp_textarea_cursor([n EXCEPT !.cursor_row = row, !.cursor_col = col])
        EXCEPT !.dirty = TRUE]

\* tui_set_content
SetContent(handle, text) ==
    /\ nodes' = IF validate_handle(nodes, handle)
                THEN [nodes EXCEPT ![handle] = set_content(@, text)]
                ELSE nodes
    /\ UNCHANGED <<themes, next_theme_handle, front_buffer, back_buffer, backend,
                   tree, next_handle, root, focused, event_buffer, animations,
                   next_anim_handle, theme_bindings, returned, process,
                   animation_chains, choreo_groups, next_choreo_group_handle>>

\* tui_textarea_set_cursor
TextAreaSetCursor(handle, row, col) ==
    /\ nodes' = IF validate_handle(nodes, handle)
                    /\ nodes[handle].node_type = "TextArea"
                THEN [nodes EXCEPT ![handle] = textarea_set_cursor(@, row, col)]
                ELSE nodes
    /\ UNCHANGED <<themes, next_theme_handle, front_buffer, back_buffer, backend,
                   tree, next_handle, root, focused, event_buffer, animations,
                   next_anim_handle, theme_bindings, returned, process,
                   animation_chains, choreo_groups, next_choreo_group_handle>>

(***************************************************************************)
(* SpecArea: one TextArea with the focus on it or nowhere, its content set *)
(* and edited by keys, its cursor set and moved by keys.                   *)
(***************************************************************************)
MaxAreaNodes == 1
MaxAreaContent == 3
MaxAreaEvents == 1

\* The strings of at most MaxAreaContent characters
RECURSIVE AreaTexts(_)
AreaTexts(len) ==
    IF len = 0 THEN {<<>>}
    ELSE AreaTexts(len - 1)
            \cup {Append(text, c) : text \in {t \in AreaTexts(len - 1) : Len(t) = len - 1},
                                    c \in {"a", "m", "LF"}}

AreaKeys ==
    {RawKey(code, "NUL") : code \in {BACKSPACE, ENTER, LEFT, RIGHT, UP, DOWN, HOME,
                                     END, DELETE, ESCAPE}}
        \cup {RawKey(97, "a"), RawKey(769, "m"), RawKey(10, "LF")}

AreaCreate == CreateNode(MaxAreaNodes, "TextArea")

AreaFocus ==
    \E handle \in Handles(MaxAreaNodes) :
        Len(event_buffer) < MaxAreaEvents /\ Focus(handle)

AreaSetContent ==
    \E handle \in Handles(MaxAreaNodes), text \in AreaTexts(MaxAreaContent) :
        SetContent(handle, text)

AreaSetCursor ==
    \E handle \in Handles(MaxAreaNodes), row, col \in 0..(MaxAreaContent + 1) :
        TextAreaSetCursor(handle, row, col)

AreaReadKey ==
    \E raw \in AreaKeys :
        /\ ReadInput(<<raw>>, MaxAreaEvents)
        /\ \A h \in DOMAIN nodes' : Len(nodes'[h].content) <= MaxAreaContent

NextArea ==
    \/ AreaCreate
    \/ AreaFocus
    \/ AreaSetContent
    \/ AreaSetCursor
    \/ AreaReadKey
    \/ NextEvent

SpecArea == Init /\ [][NextArea]_vars

(***************************************************************************)
(* C35: the cursor of every TextArea is on a line of its content and at    *)
(* most at the end of that line: cursor_row is less than the number of     *)
(* lines and cursor_col is at most the number of graphemes of the line,    *)
(* after any key events, set_content and set_cursor.                       *)
(***************************************************************************)
C35_CursorInContent ==
    \A h \in DOMAIN nodes :
        nodes[h].node_type = "TextArea" =>
            LET lines == split_textarea_lines(nodes[h].content)
            IN  /\ nodes[h].cursor_row >= 0
                /\ nodes[h].cursor_row < Len(lines)
                /\ nodes[h].cursor_col >= 0
                /\ nodes[h].cursor_col <= Len(lines[nodes[h].cursor_row + 1])

\* The cursor stands at the end of the last of two lines, the first of them
\* shorter: a set_content with shorter lines, a Backspace, an Up or a
\* combining mark typed here all have to move it.
C35_Witness ==
    \E h \in DOMAIN nodes :
        /\ nodes[h].node_type = "TextArea"
        /\ focused = h
        /\ nodes[h].content = <<"LF", "a", "a">>
        /\ nodes[h].cursor_row = 1
        /\ nodes[h].cursor_col = 2

(***************************************************************************)
(* C36: every animation in the registry targets a live node; a node that   *)
(* tui_destroy_node or tui_destroy_subtree has destroyed, alone or as a    *)
(* descendant, is the target of no animation.                              *)
(***************************************************************************)
C36_AnimationsTargetLiveNodes ==
    \A k \in 1..Len(animations) : validate_handle(nodes, animations[k].target)

\* An animation runs on a node that has a parent: destroying the node, or
\* the subtree of its parent, has to cancel it.
C36_Witness ==
    \E k \in 1..Len(animations) :
        /\ animations[k].target \in DOMAIN nodes
        /\ nodes[animations[k].target].parent \in DOMAIN nodes
        /\ next_handle > MaxNodes

(***************************************************************************)
(* C37: every animation handle in the chain map, as predecessor or as      *)
(* successor, and every member of a choreography group names an animation  *)
(* that is in the registry.                                                *)
(***************************************************************************)
ChainsNameAnimations ==
    \A after_anim \in DOMAIN animation_chains :
        /\ after_anim \in AnimIds(animations)
        /\ animation_chains[after_anim] \in AnimIds(animations)

MembersNameAnimations ==
    \A group_id \in DOMAIN choreo_groups :
        \A k \in 1..Len(choreo_groups[group_id].members) :
            choreo_groups[group_id].members[k].anim_id \in AnimIds(animations)

C37_HandlesNameAnimations == ChainsNameAnimations /\ MembersNameAnimations

(***************************************************************************)
(* C38: a choreography group that has been created and has no member yet   *)
(* is still in the group map after cancel_animation, after the destruction *)
(* of a node with cancel_all_for_node and after a tick, whichever          *)
(* animations these remove: none of them was ever a member of the group.   *)
(***************************************************************************)
\* The group map after tui_destroy_node(handle)
GroupsAfterDestroy(handle) ==
    remove_from_choreography(choreo_groups,
        AnimIds(animations) \ AnimIds(cancel_all_for_node(animations, handle)))

C38_EmptyGroupSurvives ==
    \A group_id \in DOMAIN choreo_groups :
        choreo_groups[group_id].members = <<>> =>
            /\ \A anim_id \in AnimIds(animations) :
                   group_id \in DOMAIN cancel_animation(animations, animation_chains,
                                           choreo_groups, anim_id).choreo_groups
            /\ \A handle \in DOMAIN nodes : group_id \in DOMAIN GroupsAfterDestroy(handle)
            /\ \A elapsed_ms \in TickSlices :
                   group_id \in DOMAIN advance_animations(nodes, animations,
                                           animation_chains, choreo_groups,
                                           elapsed_ms).choreo_groups

(***************************************************************************)
(* C39: after a successful chain(a, b), with neither animation cancelled   *)
(* or replaced since, the tick in which a completes clears the pending     *)
(* flag of b, also when chain(a, c) was called for the same predecessor    *)
(* in between.                                                             *)
(***************************************************************************)
\* The animation of the registry with the id
AnimationOf(anims, anim_id) ==
    anims[CHOOSE k \in 1..Len(anims) : anims[k].id = anim_id]

\* The tick of elapsed_ms after the calls chained, made in the current state
TickAfterChains(chained, elapsed_ms) ==
    advance_animations(nodes, chained.animations, chained.animation_chains,
                       choreo_groups, elapsed_ms)

\* a completes in the tick and b is pending no more
CompletionStarts(chained, a, b, elapsed_ms) ==
    (/\ chained.ok
     /\ a \notin AnimIds(TickAfterChains(chained, elapsed_ms).animations)
     /\ b \in AnimIds(TickAfterChains(chained, elapsed_ms).animations))
        => ~AnimationOf(TickAfterChains(chained, elapsed_ms).animations, b).pending

\* chain(a, b), then chain(a, c) when c is an animation other than a and b
ChainThenChain(a, b, c) ==
    IF c \in {a, b}
    THEN chain_animation(animations, animation_chains, a, b)
    ELSE [chain_animation(chain_animation(animations, animation_chains, a, b).animations,
                          chain_animation(animations, animation_chains, a, b).animation_chains,
                          a, c)
             EXCEPT !.ok = @ /\ chain_animation(animations, animation_chains, a, b).ok]

C39_ChainSurvivesRechain ==
    \A a, b, c \in AnimIds(animations), elapsed_ms \in TickSlices :
        a # b => CompletionStarts(ChainThenChain(a, b, c), a, b, elapsed_ms)

\* The same without a second chain call on the predecessor
ChainStartsSuccessor ==
    \A a, b \in AnimIds(animations), elapsed_ms \in TickSlices :
        a # b => CompletionStarts(ChainThenChain(a, b, b), a, b, elapsed_ms)

(***************************************************************************)
(* C40: the count read_input returns is the number of events the call has  *)
(* appended to the event buffer, whatever the backend delivers.            *)
(***************************************************************************)
\* read_input over the raw events returns the number of events it appended
CountsAppended(raw_events) ==
    LET r == read_input(nodes, root, focused, event_buffer, raw_events)
    IN  r.count = Len(r.event_buffer) - Len(event_buffer)

C40_CountIsAppended == \A raw_events \in InputBatches : CountsAppended(raw_events)

\* The same for the raw events that neither move the focus nor reach a
\* widget: Escape without a focused node, a wheel event, a resize, a focus
\* report.
PlainCountIsAppended ==
    \A button \in {3, 4}, at \in Handles(MaxInputNodes) :
        focused = None =>
            CountsAppended(<<RawKey(ESCAPE, "NUL"), [type |-> "Resize"],
                             RawMouse(at, button), [type |-> "FocusGained"]>>)

====
